---- MODULE Spec2Model ----
(***************************************************************************)
(* BioMethod: the orchestrator (core/analyzer.py), the dialect scanners'   *)
(* parse entry points (parsers/*.py), knowledge-base enrichment            *)
(* (parsers/base.py) and the reproducibility scorer (core/report.py).      *)
(*                                                                         *)
(* Strings that the code searches with `in` (parameter values) are token   *)
(* sequences, so that substring search is computed and not tabulated.      *)
(***************************************************************************)
EXTENDS Integers, Sequences, FiniteSets, TLC

VARIABLES
  pc,              \* the operation that ran last
  analyzer,        \* the Analyzer: detect_versions, tools_database, version cache
  installed,       \* what the machine answers to the version detector
  input,           \* the argument of the last operation
  result,          \* the AnalysisResult returned by Analyzer.analyze
  raw,             \* the facts as the scanners returned them (history)
  parseLog,        \* every parser.parse invocation of the last analyze (history)
  writes,          \* the field assignments of the last enrichment pass (history)
  report           \* the ReproducibilityReport of reproducibility_check

vars == <<pc, analyzer, installed, input, result, raw, parseLog, writes, report>>

----------------------------------------------------------------------------
(* Bounds of the model *)

MaxFiles == 2
MaxTools == 2

----------------------------------------------------------------------------
(* Generic helpers *)

\* Python's None for an optional string
None == "<None>"

Range(s) == {s[i] : i \in 1..Len(s)}

RECURSIVE Flatten(_)
Flatten(ss) == IF ss = <<>> THEN <<>> ELSE Head(ss) \o Flatten(Tail(ss))

\* all orderings of a finite set, as sequences without repetition
Perms(S) == {s \in [1..Cardinality(S) -> S] : \A i, j \in 1..Cardinality(S) : s[i] = s[j] => i = j}

\* str.lower() on the strings the model uses
Lower(s) ==
  CASE s = ".PY" -> ".py"
    [] s = ".R" -> ".r"
    [] s = ".Rmd" -> ".rmd"
    [] s = ".NF" -> ".nf"
    [] s = "Snakefile" -> "snakefile"
    [] s = "A" -> "a"
    [] s = "SEED" -> "seed"
    [] s = "Random_State" -> "random_state"
    [] s = "-S" -> "-s"
    [] s = "Scanpy" -> "scanpy"
    [] s = "Python" -> "python"
    [] s = "DESeq2" -> "deseq2"
    [] s = "Seurat" -> "seurat"
    [] s = "clusterProfile" -> "clusterprofile"
    [] s = "Library" -> "library"
    [] OTHER -> s

\* `pattern in value` on token sequences
Contains(value, pattern) ==
  \E i \in 1..(Len(value) - Len(pattern) + 1) :
     SubSeq(value, i, i + Len(pattern) - 1) = pattern

----------------------------------------------------------------------------
(* Paths: pathlib.Path as stem + suffix *)

Path(stem, ext) == [stem |-> stem, ext |-> ext]
PathName(p) == p.stem \o p.ext
PathSuffix(p) == p.ext
Str(p) == PathName(p)

\* str.endswith(tuple) on str(path): the stems of the model hold no dot
EndsWith(f, suffixes) == f.ext # "" /\ f.ext \in suffixes

----------------------------------------------------------------------------
(* core/models.py *)

\* ToolInfo with the dataclass defaults for the fields a scanner leaves out
ToolInfo(name, version, parameters, category, source_file, line_number) ==
  [name |-> name, version |-> version, parameters |-> parameters,
   citation |-> None, category |-> category, source_file |-> source_file,
   line_number |-> line_number, aliases |-> <<>>, description |-> ""]

\* EnvironmentInfo() as the dataclass constructs it
EnvironmentInfo ==
  [python_version |-> None, packages |-> <<>>, containers |-> <<>>,
   requirements_files |-> <<>>, environment_files |-> <<>>]

\* AnalysisResult() as the dataclass constructs it
AnalysisResult ==
  [tools |-> <<>>, workflow_type |-> None, environment |-> EnvironmentInfo,
   warnings |-> <<>>, source_files |-> <<>>]

\* ReproducibilityReport() as the dataclass constructs it
ReproducibilityReport == [issues |-> <<>>, score |-> 0, checklist |-> <<>>]

\* Python truthiness of an optional string
Falsy(v) == v = None \/ v = ""

\* a dict kept as a sequence of [k, v] items in insertion order
Keys(d) == {d[i].k : i \in 1..Len(d)}
HasKey(d, k) == k \in Keys(d)
Get(d, k, default) ==
  IF HasKey(d, k) THEN d[CHOOSE i \in 1..Len(d) : d[i].k = k].v ELSE default
\* d[k] = v
Put(d, k, v) ==
  IF HasKey(d, k)
  THEN [i \in 1..Len(d) |-> IF d[i].k = k THEN [k |-> k, v |-> v] ELSE d[i]]
  ELSE Append(d, [k |-> k, v |-> v])

----------------------------------------------------------------------------
(* parsers/base.py: knowledge-base lookup and enrichment *)

\* str.replace("-", "_").replace(" ", "_") on the names the model uses
ReplaceSep(s) ==
  CASE s = "scikit-learn" -> "scikit_learn"
    [] s = "bwa-mem2" -> "bwa_mem2"
    [] s = "star aligner" -> "star_aligner"
    [] OTHER -> s

_normalize_tool_name(name) == ReplaceSep(Lower(name))

\* a knowledge-base entry is a dict; dict.get with a default
EntryGet(info, key, default) == IF key \in DOMAIN info THEN info[key] ELSE default

\* the None a lookup returns on a miss (entries are dicts)
NoInfo == [none |-> TRUE]

_lookup_tool(db, name) ==
  LET normalized == _normalize_tool_name(name)
      hits == {i \in 1..Len(db) :
                 \E j \in 1..Len(EntryGet(db[i].v, "aliases", <<>>)) :
                    _normalize_tool_name(EntryGet(db[i].v, "aliases", <<>>)[j]) = normalized}
  IN IF HasKey(db, normalized) THEN Get(db, normalized, NoInfo)
     ELSE IF hits # {} THEN db[CHOOSE i \in hits : \A j \in hits : i <= j].v
     ELSE NoInfo

\* the assignments of an enrichment that takes the category from the knowledge
\* base whatever the fact holds
EnrichStepsOverwrite(db_info, tool) ==
  IF db_info = NoInfo \/ DOMAIN db_info = {} THEN <<>>
  ELSE (IF Falsy(tool.citation)
        THEN << <<"citation", EntryGet(db_info, "citation", None)>> >> ELSE <<>>)
    \o << <<"category", EntryGet(db_info, "category", "unknown")>> >>
    \o (IF tool.description = ""
        THEN << <<"description", EntryGet(db_info, "description", "")>> >> ELSE <<>>)
    \o (IF tool.aliases = <<>>
        THEN << <<"aliases", EntryGet(db_info, "aliases", <<>>)>> >> ELSE <<>>)

\* the assignments _enrich_tool_info performs once it holds db_info, in order, as
\* <<field, value>>
EnrichSteps(db_info, tool) ==
  IF db_info = NoInfo \/ DOMAIN db_info = {} THEN <<>>
  ELSE (IF Falsy(tool.citation)
        THEN << <<"citation", EntryGet(db_info, "citation", None)>> >> ELSE <<>>)
    \o (IF tool.category = "unknown"
        THEN << <<"category", EntryGet(db_info, "category", "unknown")>> >> ELSE <<>>)
    \o (IF tool.description = ""
        THEN << <<"description", EntryGet(db_info, "description", "")>> >> ELSE <<>>)
    \o (IF tool.aliases = <<>>
        THEN << <<"aliases", EntryGet(db_info, "aliases", <<>>)>> >> ELSE <<>>)

RECURSIVE Assign(_, _)
Assign(tool, steps) ==
  IF steps = <<>> THEN tool
  ELSE Assign([tool EXCEPT ![Head(steps)[1]] = Head(steps)[2]], Tail(steps))

_enrich_tool_info(db, tool) == Assign(tool, EnrichSteps(_lookup_tool(db, tool.name), tool))

EnrichAll(db, tools) == [i \in 1..Len(tools) |-> _enrich_tool_info(db, tools[i])]

----------------------------------------------------------------------------
(* The scanners: can_parse and parse of each parser class.  What the        *)
(* extraction rules find in a readable, well-formed text is given with the  *)
(* artifact (`uses`); parse decides what becomes of it.                     *)

\* the ToolInfo objects the extraction rules build from the uses they find
MkTools(uses, source_file) ==
  [i \in 1..Len(uses) |->
     ToolInfo(uses[i].name, uses[i].version, uses[i].parameters,
              uses[i].category, source_file, uses[i].line)]

\* facts that keep the line of the cell source they were found at
KeepLine(tools, n) == tools

\* tool.line_number = cell_idx for every fact of the cell
SetLine(tools, n) == [i \in 1..Len(tools) |-> [tools[i] EXCEPT !.line_number = n]]

Returned(tools) == [raised |-> FALSE, tools |-> tools]
Raised == [raised |-> TRUE, tools |-> <<>>]

PythonCanParse(path) == Lower(PathSuffix(path)) \in {".py"}

PythonParse(db, art) ==
  IF art.io # "ok" THEN Returned(<<>>)
  ELSE IF art.shape = "syntaxerror" THEN Returned(<<>>)
  ELSE Returned(EnrichAll(db, MkTools(art.uses, Str(art.path))))

JupyterCanParse(path) == Lower(PathSuffix(path)) \in {".ipynb"}

\* JupyterParser._parse_cell_code for the cell at index cell_idx
_parse_cell_code(cell, source_file, cell_idx) ==
  LET shell_tools == SetLine(MkTools(cell.shell, source_file), cell_idx)
  IN IF cell.clean = "ok"
     THEN SetLine(shell_tools \o MkTools(cell.code, source_file), cell_idx)
     ELSE shell_tools

\* JupyterParser._parse_cell_outputs collects nothing
_parse_cell_outputs(cell, source_file, cell_idx) == <<>>

RECURSIVE JupyterCells(_, _, _)
JupyterCells(cells, source_file, cell_idx) ==
  IF cells = <<>> THEN <<>>
  ELSE LET cell == Head(cells)
           here == IF cell.cell_type # "code" \/ cell.blank THEN <<>>
                   ELSE _parse_cell_code(cell, source_file, cell_idx)
                        \o _parse_cell_outputs(cell, source_file, cell_idx)
       IN here \o JupyterCells(Tail(cells), source_file, cell_idx + 1)

JupyterParse(db, art) ==
  IF art.io = "ioerror" THEN Returned(<<>>)
  ELSE IF art.io = "decodeerror" THEN Raised          \* UnicodeDecodeError is not caught
  ELSE IF art.shape = "notjson" THEN Returned(<<>>)
  ELSE IF art.shape = "scalar" THEN Raised            \* "cells" not in <number>: TypeError
  ELSE IF art.shape = "nocells" THEN Returned(<<>>)
  ELSE IF Lower(art.language) # "python" THEN Returned(<<>>)
  ELSE Returned(EnrichAll(db, JupyterCells(art.cells, Str(art.path), 0)))

RCanParse(path) ==
  Lower(PathSuffix(path)) \in {Lower(e) : e \in {".R", ".r", ".Rmd", ".rmd"}}

RParse(db, art) ==
  IF art.io # "ok" THEN Returned(<<>>)
  ELSE Returned(EnrichAll(db, MkTools(art.uses, Str(art.path))))

NextflowCanParse(path) == Lower(PathSuffix(path)) \in {".nf"}

\* art.config is what _parse_config returns for the nextflow.config next to the
\* artifact, <<>> when config_path.exists() is false
NextflowParse(db, art) ==
  IF art.io # "ok" THEN Returned(<<>>)
  ELSE Returned(EnrichAll(db, MkTools(art.uses, Str(art.path)) \o art.config))

SnakemakeCanParse(path) ==
  \/ Lower(PathSuffix(path)) \in {".smk", ".snakefile", ".snake"}
  \/ Lower(path.stem) \o Lower(path.ext) \in {"snakefile", "snakefile.py"}

SnakemakeParse(db, art) ==
  IF art.io # "ok" THEN Returned(<<>>)
  ELSE Returned(EnrichAll(db, MkTools(art.uses, Str(art.path))))

\* Analyzer._setup_parsers: the order of self.parsers
parsers == <<"python", "jupyter", "r", "nextflow", "snakemake">>

can_parse(parser, path) ==
  CASE parser = "python" -> PythonCanParse(path)
    [] parser = "jupyter" -> JupyterCanParse(path)
    [] parser = "r" -> RCanParse(path)
    [] parser = "nextflow" -> NextflowCanParse(path)
    [] parser = "snakemake" -> SnakemakeCanParse(path)

parse(parser, db, art) ==
  CASE parser = "python" -> PythonParse(db, art)
    [] parser = "jupyter" -> JupyterParse(db, art)
    [] parser = "r" -> RParse(db, art)
    [] parser = "nextflow" -> NextflowParse(db, art)
    [] parser = "snakemake" -> SnakemakeParse(db, art)

\* the union of the parsers' extensions (case-sensitive glob patterns)
extensions == {".py", ".ipynb", ".R", ".r", ".Rmd", ".rmd", ".nf", ".smk", ".snakefile", ".snake"}
special_files == {"Snakefile", "snakefile"}

----------------------------------------------------------------------------
(* detectors/version.py, as far as the orchestrator uses it.  `installed`    *)
(* holds what the package metadata (py) and the tools' own version output   *)
(* (cli) answer; a name that is in neither has no version.                  *)

\* PYTHON_PACKAGE_MAP, the entries of the names the model uses
PYTHON_PACKAGE_MAP == <<[k |-> "biopython", v |-> "Bio"], [k |-> "scanpy", v |-> "scanpy"]>>

\* one look into the package metadata, one import, one spawned process
Query(kind, name) == [kind |-> kind, name |-> name]

\* the names importlib.metadata.version and __import__ are asked for, in order
MetadataNames(package_name) ==
  IF HasKey(PYTHON_PACKAGE_MAP, Lower(package_name))
  THEN <<package_name, Get(PYTHON_PACKAGE_MAP, Lower(package_name), None)>>
  ELSE <<package_name>>

ImportName(package_name) == Get(PYTHON_PACKAGE_MAP, Lower(package_name), package_name)

\* the outcome of a call: what it returns, the cache it leaves, what it asked
\* the machine, and the exception it let through
Detected(version, cache, queries) ==
  [version |-> version, cache |-> cache, queries |-> queries, raised |-> None]

detect_python_package_version(cache, inst, package_name) ==
  IF HasKey(cache, package_name)
  THEN Detected(Get(cache, package_name, None), cache, <<>>)
  ELSE IF HasKey(inst.py, package_name)
  THEN Detected(Get(inst.py, package_name, None),
                Put(cache, package_name, Get(inst.py, package_name, None)),
                <<Query("metadata", package_name)>>)
  ELSE IF Len(MetadataNames(package_name)) = 2 /\ HasKey(inst.py, MetadataNames(package_name)[2])
  THEN Detected(Get(inst.py, MetadataNames(package_name)[2], None),
                Put(cache, package_name, Get(inst.py, MetadataNames(package_name)[2], None)),
                [i \in 1..2 |-> Query("metadata", MetadataNames(package_name)[i])])
  ELSE IF HasKey(inst.modules, ImportName(package_name))
  THEN Detected(Get(inst.modules, ImportName(package_name), None),
                Put(cache, package_name, Get(inst.modules, ImportName(package_name), None)),
                [i \in 1..Len(MetadataNames(package_name)) |->
                   Query("metadata", MetadataNames(package_name)[i])]
                  \o <<Query("import", ImportName(package_name))>>)
  ELSE Detected(None, cache,
                [i \in 1..Len(MetadataNames(package_name)) |->
                   Query("metadata", MetadataNames(package_name)[i])]
                  \o <<Query("import", ImportName(package_name))>>)

\* except (subprocess.TimeoutExpired, FileNotFoundError, PermissionError)
CaughtBySubprocessHandler == {"TimeoutExpired", "FileNotFoundError", "PermissionError"}

\* a detector that runs the tool on every call and keeps nothing
detect_cli_tool_version_uncached(cache, inst, tool_name) ==
  IF HasKey(inst.failures, tool_name)
  THEN [Detected(None, cache, <<Query("process", tool_name)>>)
          EXCEPT !.raised = IF Get(inst.failures, tool_name, None) \in CaughtBySubprocessHandler
                            THEN None ELSE Get(inst.failures, tool_name, None)]
  ELSE Detected(Get(inst.cli, tool_name, None), cache, <<Query("process", tool_name)>>)

\* subprocess.run raises what inst.failures holds for the tool; otherwise the
\* output holds the version inst.cli has for it, or none
detect_cli_tool_version(cache, inst, tool_name) ==
  IF HasKey(cache, tool_name)
  THEN Detected(Get(cache, tool_name, None), cache, <<>>)
  ELSE IF HasKey(inst.failures, tool_name)
  THEN [Detected(None, cache, <<Query("process", tool_name)>>)
          EXCEPT !.raised = IF Get(inst.failures, tool_name, None) \in CaughtBySubprocessHandler
                            THEN None ELSE Get(inst.failures, tool_name, None)]
  ELSE IF HasKey(inst.cli, tool_name)
  THEN Detected(Get(inst.cli, tool_name, None),
                Put(cache, tool_name, Get(inst.cli, tool_name, None)),
                <<Query("process", tool_name)>>)
  ELSE Detected(None, cache, <<Query("process", tool_name)>>)

get_python_version == "3.11.4"

----------------------------------------------------------------------------
(* detectors/environment.py: the snapshot of a directory's manifests *)

RECURSIVE parse_requirements_txt(_)
parse_requirements_txt(lines) ==
  IF lines = <<>> THEN <<>>
  ELSE LET line == lines[Len(lines)]
       IN Put(parse_requirements_txt(SubSeq(lines, 1, Len(lines) - 1)),
              Lower(line.name), line.version)

parse_directory(dir) ==
  [python_version |-> None,
   packages |-> IF dir.has_requirements THEN parse_requirements_txt(dir.requirements) ELSE <<>>,
   containers |-> dir.containers,
   requirements_files |-> IF dir.has_requirements THEN <<"requirements.txt">> ELSE <<>>,
   environment_files |-> <<>>]

----------------------------------------------------------------------------
(* core/analyzer.py *)

\* the loop of _analyze_file from parser number i on; `calls` lists the parsers
\* whose parse was invoked
\* the try block of _analyze_file around parser.parse, whose outcome is r:
\* tools.extend(parsed_tools), or except Exception: pass
TryParse(parser, path, r) ==
  [tools |-> IF r.raised THEN <<>> ELSE r.tools,
   calls |-> <<[file |-> path, parser |-> parser, raised |-> r.raised]>>,
   raised |-> FALSE]

RECURSIVE AnalyzeFileFrom(_, _, _)
AnalyzeFileFrom(i, db, art) ==
  IF i > Len(parsers) THEN [tools |-> <<>>, calls |-> <<>>, raised |-> FALSE]
  ELSE IF can_parse(parsers[i], art.path)
  THEN TryParse(parsers[i], art.path, parse(parsers[i], db, art))     \* then break
  ELSE AnalyzeFileFrom(i + 1, db, art)

\* two runs of the try block, one after the other
ThenParse(first, rest) ==
  [tools |-> first.tools \o rest.tools, calls |-> first.calls \o rest.calls, raised |-> FALSE]

\* the loop without its break: every matching parser is run
RECURSIVE AnalyzeFileNoBreak(_, _, _)
AnalyzeFileNoBreak(i, db, art) ==
  IF i > Len(parsers) THEN [tools |-> <<>>, calls |-> <<>>, raised |-> FALSE]
  ELSE IF can_parse(parsers[i], art.path)
  THEN ThenParse(TryParse(parsers[i], art.path, parse(parsers[i], db, art)),
                 AnalyzeFileNoBreak(i + 1, db, art))
  ELSE AnalyzeFileNoBreak(i + 1, db, art)

_analyze_file_no_break(db, art) == AnalyzeFileNoBreak(1, db, art)

_analyze_file(db, art) == AnalyzeFileFrom(1, db, art)

\* the loop of _analyze_directory over files_to_parse; the except branch appends
\* the "Failed to parse" warning when _analyze_file raises
\* one iteration of the loop: `before` is what the earlier iterations collected,
\* `file` what _analyze_file did with file_path
AnalyzeDirectoryStep(before, file, file_path) ==
  IF file.raised
  THEN [before EXCEPT
          !.warnings = Append(@, [kind |-> "failed_to_parse", path |-> file_path]),
          !.calls = @ \o file.calls]
  ELSE [tools |-> before.tools \o file.tools,
        source_files |-> IF file.tools # <<>>
                         THEN Append(before.source_files, file_path)
                         ELSE before.source_files,
        warnings |-> before.warnings,
        calls |-> before.calls \o file.calls]

RECURSIVE _analyze_directory(_, _)
_analyze_directory(db, files_to_parse) ==
  IF files_to_parse = <<>>
  THEN [tools |-> <<>>, source_files |-> <<>>, warnings |-> <<>>, calls |-> <<>>]
  ELSE AnalyzeDirectoryStep(
         _analyze_directory(db, SubSeq(files_to_parse, 1, Len(files_to_parse) - 1)),
         _analyze_file(db, files_to_parse[Len(files_to_parse)]),
         files_to_parse[Len(files_to_parse)].path)

\* the first loop of _detect_workflow_type: the first special-dialect file decides
RECURSIVE FirstSpecial(_)
FirstSpecial(source_files) ==
  IF source_files = <<>> THEN None
  ELSE LET path == Head(source_files)
           name_lower == Lower(path.stem) \o Lower(path.ext)
           suffix_lower == Lower(PathSuffix(path))
       IN IF suffix_lower = ".nf" THEN "nextflow"   \* name_lower.endswith(".nf") says the same
          ELSE IF suffix_lower \in {".smk", ".snakefile"} \/ name_lower = "snakefile"
          THEN "snakemake"
          ELSE FirstSpecial(Tail(source_files))

_detect_workflow_type(source_files) ==
  LET special == FirstSpecial(source_files)
      python_count == Cardinality({i \in 1..Len(source_files) :
                         EndsWith(source_files[i], {".py", ".ipynb"})})
      r_count == Cardinality({i \in 1..Len(source_files) :
                    EndsWith([source_files[i] EXCEPT !.ext = Lower(@)], {".r", ".rmd"})})
  IN IF special # None THEN special
     ELSE IF python_count > r_count THEN "python"
     ELSE IF r_count > python_count THEN "r"
     ELSE "script"


\* the version one iteration of _enrich_with_versions finds for a tool that has
\* none: package metadata, then the tool's own output, then the declared packages
\* of the environment the result holds at that moment
\* if not version: version = detect_cli_tool_version(tool.name)
OrCliVersion(inst, tool, py) ==
  IF Falsy(py.version) THEN detect_cli_tool_version(py.cache, inst, tool.name) ELSE py

\* if not version and tool.name in result.environment.packages: take that one
OrDeclaredVersion(packages, tool, found) ==
  IF Falsy(found.version) /\ HasKey(packages, tool.name)
  THEN [version |-> Get(packages, tool.name, None), cache |-> found.cache]
  ELSE found

FindVersion(cache, inst, packages, tool) ==
  OrDeclaredVersion(packages, tool,
    OrCliVersion(inst, tool, detect_python_package_version(cache, inst, tool.name)))

\* if version: tool.version = version, after the iterations that gave `before`
SetVersion(before, tool, found) ==
  IF ~Falsy(found.version)
  THEN [tools |-> Append(before.tools, [tool EXCEPT !.version = found.version]),
        cache |-> found.cache, writes |-> Append(before.writes, 1)]
  ELSE [tools |-> Append(before.tools, tool), cache |-> found.cache,
        writes |-> Append(before.writes, 0)]

\* one iteration of the loop: a tool that has a version is passed over
EnrichVersionStep(before, inst, packages, tool) ==
  IF ~Falsy(tool.version)
  THEN [tools |-> Append(before.tools, tool), cache |-> before.cache,
        writes |-> Append(before.writes, 0)]
  ELSE SetVersion(before, tool, FindVersion(before.cache, inst, packages, tool))

\* _enrich_with_versions over result.tools; `writes` counts the assignments to
\* tool.version, per tool
RECURSIVE _enrich_with_versions(_, _, _, _)
_enrich_with_versions(tools, cache, inst, packages) ==
  IF tools = <<>> THEN [tools |-> <<>>, cache |-> cache, writes |-> <<>>]
  ELSE EnrichVersionStep(
         _enrich_with_versions(SubSeq(tools, 1, Len(tools) - 1), cache, inst, packages),
         inst, packages, tools[Len(tools)])

\* a string parameter value that holds one of the patterns
IsStr(value) == value.kind = "str"
HasPattern(value, patterns) == IsStr(value) /\ \E p \in patterns : Contains(value.val, p)

analyzer_path_patterns ==
  {<<"/", "home", "/">>, <<"/", "Users", "/">>, <<"C:", "\\">>, <<"/", "tmp", "/">>}

seed_params == {"seed", "random_seed", "random_state", "-s", "--seed"}

has_seed(tool) == \E k \in Keys(tool.parameters) : Lower(k) \in {Lower(s) : s \in seed_params}

\* the path loop without its break: one warning per pattern a value holds
PathWarningsNoBreak(tool) ==
  Flatten([j \in 1..Len(tool.parameters) |->
             [n \in 1..Cardinality({p \in analyzer_path_patterns :
                                      HasPattern(tool.parameters[j].v, {p})}) |->
                [kind |-> "hardcoded_path", tool |-> tool.name,
                 param |-> tool.parameters[j].k, value |-> tool.parameters[j].v.val]]])

\* the warnings of one tool's parameters, one per string value with a pattern
PathWarnings(tool) ==
  LET ps == tool.parameters
      hit == [i \in 1..Len(ps) |->
                IF HasPattern(ps[i].v, analyzer_path_patterns)
                THEN <<[kind |-> "hardcoded_path", tool |-> tool.name,
                        param |-> ps[i].k, value |-> ps[i].v.val]>>
                ELSE <<>>]
  IN Flatten(hit)

\* the warnings _check_reproducibility_issues appends, in its three loops
_check_reproducibility_issues(tools) ==
  Flatten([i \in 1..Len(tools) |->
             IF Falsy(tools[i].version)
             THEN <<[kind |-> "no_version", tool |-> tools[i].name,
                     source |-> tools[i].source_file]>>
             ELSE <<>>])
  \o Flatten([i \in 1..Len(tools) |-> PathWarnings(tools[i])])
  \o Flatten([i \in 1..Len(tools) |->
             IF tools[i].category \in {"single-cell", "differential-expression"}
                /\ ~has_seed(tools[i])
             THEN <<[kind |-> "seed", tool |-> tools[i].name]>>
             ELSE <<>>])

\* path.is_file(): result.tools = _analyze_file(path), source_files = [path]
AnalyzeSingleFile(f, file_path) ==
  [tools |-> f.tools, source_files |-> <<file_path>>, warnings |-> <<>>, calls |-> f.calls]

\* the branches of analyze on path.is_file(), path.is_dir(), neither
AnalyzePath(db, path) ==
  IF path.kind = "file"
  THEN AnalyzeSingleFile(_analyze_file(db, path.files[1]), path.files[1].path)
  ELSE IF path.kind = "dir" THEN _analyze_directory(db, path.files)
  ELSE [tools |-> <<>>, source_files |-> <<>>,
        warnings |-> <<[kind |-> "path_does_not_exist"]>>, calls |-> <<>>]

\* if self.detect_versions: self._enrich_with_versions(result); result.environment
\* is still EnvironmentInfo() at this point of analyze
DetectVersions(self, inst, tools) ==
  IF self.detect_versions
  THEN _enrich_with_versions(tools, self.cached_versions, inst, EnvironmentInfo.packages)
  ELSE [tools |-> tools, cache |-> self.cached_versions, writes |-> [i \in 1..Len(tools) |-> 0]]

\* result.environment = parse_directory(path or its parent), then python_version
ParseEnvironment(path) ==
  [(IF path.kind = "missing" THEN EnvironmentInfo ELSE parse_directory(path.dir))
     EXCEPT !.python_version = get_python_version]

\* the AnalysisResult analyze returns, with the history the properties read
AnalyzeResult(scanned, enriched, environment) ==
  [result |-> [tools |-> enriched.tools,
               workflow_type |-> _detect_workflow_type(scanned.source_files),
               environment |-> environment,
               warnings |-> scanned.warnings \o _check_reproducibility_issues(enriched.tools),
               source_files |-> scanned.source_files],
   raw |-> scanned.tools,
   calls |-> scanned.calls,
   cache |-> enriched.cache]

\* the steps of analyze after the scan
AnalyzeScanned(self, inst, path, scanned) ==
  AnalyzeResult(scanned, DetectVersions(self, inst, scanned.tools), ParseEnvironment(path))

\* Analyzer.analyze(path): path is a file, a directory or neither
analyze(self, inst, path) ==
  AnalyzeScanned(self, inst, path, AnalyzePath(self.tools_database, path))

----------------------------------------------------------------------------
(* The inputs: artifacts, directories, knowledge bases, machines *)

StrV(tokens) == [kind |-> "str", val |-> tokens]
BoolV == [kind |-> "bool", val |-> <<"True">>]
NumV(n) == [kind |-> "num", val |-> <<n>>]

Use(name, version, parameters, category, line) ==
  [name |-> name, version |-> version, parameters |-> parameters,
   category |-> category, line |-> line]

UseScanpy == Use("scanpy", None, <<>>, "single-cell", 1)
UseFastp ==
  Use("fastp", None, <<[k |-> "-i", v |-> StrV(<<"/", "home", "/", "u", "/", "a.fq">>)]>>,
      "preprocessing", 3)
UseBwa == Use("bwa", "0.7.17", <<>>, "alignment", 2)
UseDeseq2 == Use("deseq2", None, <<>>, "differential-expression", 1)

\* a script or workflow artifact
Art(path, io, shape, uses) ==
  [path |-> path, io |-> io, shape |-> shape, language |-> "python",
   uses |-> uses, cells |-> <<>>, config |-> <<>>]

\* a notebook artifact
Notebook(path, io, shape, language, cells) ==
  [path |-> path, io |-> io, shape |-> shape, language |-> language,
   uses |-> <<>>, cells |-> cells, config |-> <<>>]

Cell(cell_type, blank, shell, clean, code) ==
  [cell_type |-> cell_type, blank |-> blank, shell |-> shell, clean |-> clean, code |-> code]

\* the artifacts a directory scan can meet (the globs are case-sensitive)
DirArtifacts ==
  {Art(Path("a", ".py"), "ok", "ok", <<UseScanpy>>),
   Art(Path("a", ".py"), "ok", "ok", <<>>),
   Art(Path("a", ".py"), "ok", "syntaxerror", <<UseScanpy>>),
   Art(Path("a", ".py"), "decodeerror", "ok", <<UseScanpy>>),
   Art(Path("b", ".py"), "ok", "ok", <<UseFastp>>),
   Art(Path("snakefile", ".py"), "ok", "ok", <<UseBwa>>),
   Notebook(Path("n", ".ipynb"), "ok", "ok", "python",
            <<Cell("code", FALSE, <<UseFastp>>, "ok", <<UseScanpy>>)>>),
   Notebook(Path("n", ".ipynb"), "decodeerror", "ok", "python", <<>>),
   Notebook(Path("n", ".ipynb"), "ok", "scalar", "python", <<>>),
   Art(Path("c", ".R"), "ok", "ok", <<UseDeseq2>>),
   Art(Path("main", ".nf"), "ok", "ok", <<UseBwa>>),
   Art(Path("main", ".nf"), "ok", "ok", <<>>),
   Art(Path("main", ".nf"), "ioerror", "ok", <<UseBwa>>),
   Art(Path("rules", ".smk"), "ok", "ok", <<UseFastp>>),
   Art(Path("rules", ".smk"), "ok", "ok", <<>>),
   Art(Path("Snakefile", ""), "ok", "ok", <<UseBwa>>),
   Art(Path("d", ".snake"), "ok", "ok", <<UseFastp>>)}

\* artifacts only a single-file analyze can be given
FileArtifacts ==
  DirArtifacts \cup
  {Art(Path("A", ".PY"), "ok", "ok", <<UseScanpy>>),
   Art(Path("notes", ".txt"), "ok", "ok", <<UseScanpy>>)}

IsSpecialFile(path) == path.ext = "" /\ path.stem \in special_files

\* the orders in which _analyze_directory can build files_to_parse: one glob per
\* extension, in the iteration order of a set, then the special file names
GlobOrder(files) ==
  /\ \A i, j \in 1..Len(files) : files[i].path = files[j].path => i = j
  /\ \A i \in 1..Len(files) :
       files[i].path.ext \in extensions \/ IsSpecialFile(files[i].path)
  /\ \A i, j \in 1..Len(files) :
       (i < j /\ IsSpecialFile(files[i].path)) => IsSpecialFile(files[j].path)
  /\ \A i, j, k \in 1..Len(files) :
       (i < j /\ j < k /\ files[i].path.ext = files[k].path.ext /\ files[i].path.ext # "")
         => files[j].path.ext = files[i].path.ext

FilesToParse ==
  UNION {{files \in [1..n -> DirArtifacts] : GlobOrder(files)} : n \in 0..MaxFiles}

NoManifests == [has_requirements |-> FALSE, requirements |-> <<>>, containers |-> <<>>]

\* the manifests of the analyzed directory
Manifests ==
  {NoManifests,
   [has_requirements |-> TRUE,
    requirements |-> <<[name |-> "Scanpy", version |-> "1.9.3"],
                       [name |-> "deseq2", version |-> "1.38.0"]>>,
    containers |-> <<>>]}

Paths ==
  {[kind |-> "dir", files |-> files, dir |-> m] : files \in FilesToParse, m \in Manifests}
  \cup {[kind |-> "file", files |-> <<a>>, dir |-> m] : a \in FileArtifacts, m \in Manifests}
  \cup {[kind |-> "missing", files |-> <<>>, dir |-> NoManifests]}

----------------------------------------------------------------------------
(* core/report.py: reproducibility_check *)

report_path_patterns ==
  {<<"/", "home", "/">>, <<"/", "Users", "/">>, <<"C:", "\\", "Users">>,
   <<"/", "tmp", "/">>, <<"/", "var", "/">>}

\* the issues of the three loops over analysis.tools; `of` is the index of the
\* tool whose iteration appended the issue
VersionIssues(tools) ==
  Flatten([i \in 1..Len(tools) |->
             IF Falsy(tools[i].version)
             THEN <<[severity |-> "warning", category |-> "version", tool |-> tools[i].name,
                     of |-> i]>>
             ELSE <<>>])

\* the seed loop without the exemption of category "alignment"
SeedIssuesNoExemption(tools) ==
  Flatten([i \in 1..Len(tools) |->
             IF /\ tools[i].category \in {"single-cell", "differential-expression", "alignment"}
                /\ ~has_seed(tools[i])
             THEN <<[severity |-> "info", category |-> "seed", tool |-> tools[i].name,
                     of |-> i]>>
             ELSE <<>>])

SeedIssues(tools) ==
  Flatten([i \in 1..Len(tools) |->
             IF /\ tools[i].category \in {"single-cell", "differential-expression", "alignment"}
                /\ ~has_seed(tools[i])
                /\ tools[i].category # "alignment"
             THEN <<[severity |-> "info", category |-> "seed", tool |-> tools[i].name,
                     of |-> i]>>
             ELSE <<>>])

\* the path loop without its break: one issue per pattern a value holds
ToolPathIssuesNoBreak(tool, i) ==
  Flatten([j \in 1..Len(tool.parameters) |->
             [n \in 1..Cardinality({p \in report_path_patterns :
                                      HasPattern(tool.parameters[j].v, {p})}) |->
                [severity |-> "warning", category |-> "path", tool |-> tool.name, of |-> i]]])

\* one issue per string parameter value that holds a pattern (the break leaves
\* the loop over the patterns, not the loop over the parameters)
ToolPathIssues(tool, i) ==
  Flatten([j \in 1..Len(tool.parameters) |->
             IF HasPattern(tool.parameters[j].v, report_path_patterns)
             THEN <<[severity |-> "warning", category |-> "path", tool |-> tool.name,
                     of |-> i]>>
             ELSE <<>>])

PathIssues(tools) == Flatten([i \in 1..Len(tools) |-> ToolPathIssues(tools[i], i)])

EnvironmentIssues(environment) ==
  IF environment.requirements_files = <<>> /\ environment.environment_files = <<>>
  THEN <<[severity |-> "warning", category |-> "environment", tool |-> None, of |-> 0]>>
  ELSE <<>>

\* a checklist whose workflow item follows the workflow type
ChecklistByWorkflowType(analysis) ==
  <<[k |-> "All software versions recorded", v |-> VersionIssues(analysis.tools) = <<>>],
    [k |-> "Random seeds specified", v |-> SeedIssues(analysis.tools) = <<>>],
    [k |-> "No hardcoded paths", v |-> PathIssues(analysis.tools) = <<>>],
    [k |-> "Environment specification present",
     v |-> EnvironmentIssues(analysis.environment) = <<>>],
    [k |-> "Input data sources documented", v |-> TRUE],
    [k |-> "All parameters recorded", v |-> TRUE],
    [k |-> "Workflow documented", v |-> analysis.workflow_type \in {"nextflow", "snakemake"}],
    [k |-> "Containerization used", v |-> analysis.environment.containers # <<>>],
    [k |-> "Version control used", v |-> FALSE],
    [k |-> "Public data repositories used", v |-> FALSE]>>

\* the checklist as reproducibility_check leaves it: "Workflow documented" starts
\* true and is only ever set to true
Checklist(analysis) ==
  <<[k |-> "All software versions recorded", v |-> VersionIssues(analysis.tools) = <<>>],
    [k |-> "Random seeds specified", v |-> SeedIssues(analysis.tools) = <<>>],
    [k |-> "No hardcoded paths", v |-> PathIssues(analysis.tools) = <<>>],
    [k |-> "Environment specification present",
     v |-> EnvironmentIssues(analysis.environment) = <<>>],
    [k |-> "Input data sources documented", v |-> TRUE],
    [k |-> "All parameters recorded", v |-> TRUE],
    [k |-> "Workflow documented", v |-> TRUE],
    [k |-> "Containerization used", v |-> analysis.environment.containers # <<>>],
    [k |-> "Version control used", v |-> FALSE],
    [k |-> "Public data repositories used", v |-> FALSE]>>

\* the score taken over the items that failed
ScoreOfFailed(checklist) ==
  (Cardinality({i \in 1..Len(checklist) : ~checklist[i].v}) * 100) \div Len(checklist)

\* (passed / len(checklist)) * 100, exact for every count of ten items
Score(checklist) ==
  (Cardinality({i \in 1..Len(checklist) : checklist[i].v}) * 100) \div Len(checklist)

reproducibility_check(analysis) ==
  [issues |-> VersionIssues(analysis.tools) \o SeedIssues(analysis.tools)
              \o PathIssues(analysis.tools) \o EnvironmentIssues(analysis.environment),
   score |-> Score(Checklist(analysis)),
   checklist |-> Checklist(analysis)]

----------------------------------------------------------------------------
(* The orchestrator's specification: analyze(path) on a fresh Analyzer, then  *)
(* reproducibility_check on what it returned (the `check` command).          *)

ToolsDatabase ==
  <<[k |-> "scanpy",
     v |-> [aliases |-> <<"Scanpy">>, category |-> "single-cell",
            citation |-> "Wolf2018", description |-> "single-cell analysis"]],
    [k |-> "fastp", v |-> [category |-> "quality-control"]]>>

Analyzers ==
  {[detect_versions |-> d, tools_database |-> db, cached_versions |-> <<>>] :
     d \in BOOLEAN, db \in {<<>>, ToolsDatabase}}

Machines ==
  {[py |-> <<>>, cli |-> <<>>, modules |-> <<>>, failures |-> <<>>],
   [py |-> <<>>, cli |-> <<[k |-> "fastp", v |-> "0.23.2"]>>,
    modules |-> <<>>, failures |-> <<>>]}

Init ==
  /\ pc = "init"
  /\ analyzer \in Analyzers
  /\ installed \in Machines
  /\ input = [kind |-> "none"]
  /\ result = AnalysisResult
  /\ raw = <<>>
  /\ parseLog = <<>>
  /\ writes = <<>>
  /\ report = ReproducibilityReport

Analyze ==
  /\ pc = "init"
  /\ \E path \in Paths :
       \E out \in {analyze(analyzer, installed, path)} :
          /\ input' = path
          /\ result' = out.result
          /\ raw' = out.raw
          /\ parseLog' = out.calls
          /\ analyzer' = [analyzer EXCEPT !.cached_versions = out.cache]
  /\ pc' = "analyzed"
  /\ UNCHANGED <<installed, writes, report>>

ReproducibilityCheck ==
  /\ pc = "analyzed"
  /\ report' = reproducibility_check(result)
  /\ pc' = "checked"
  /\ UNCHANGED <<analyzer, installed, input, result, raw, parseLog, writes>>

Next == Analyze \/ ReproducibilityCheck

Spec == Init /\ [][Next]_vars

----------------------------------------------------------------------------
(* Properties of the orchestrator (specification Spec) *)

Analyzed == pc \in {"analyzed", "checked"}

ScannerOrder == <<"python", "jupyter", "r", "nextflow", "snakemake">>

Matching(path) == {i \in 1..Len(ScannerOrder) : can_parse(ScannerOrder[i], path)}

CallsFor(path) == {i \in 1..Len(parseLog) : parseLog[i].file = path}

FactsOf(tools, path) == {i \in 1..Len(tools) : tools[i].source_file = Str(path)}

\* C1: for every artifact, parse is invoked on at most one scanner, the first of
\* [Python, Jupyter, R, Nextflow, Snakemake] whose can_parse is true; if that parse
\* raises the artifact yields no fact and no later scanner is tried; if no scanner
\* matches the artifact yields no fact.
C1_FirstMatchingScannerOnly ==
  Analyzed =>
    \A n \in 1..Len(input.files) :
      LET path == input.files[n].path
          m == Matching(path)
          calls == CallsFor(path)
      IN /\ Cardinality(calls) <= 1
         /\ m = {} => (calls = {} /\ FactsOf(raw, path) = {})
         /\ m # {} =>
              \E c \in calls :
                /\ calls = {c}
                /\ parseLog[c].parser = ScannerOrder[CHOOSE i \in m : \A j \in m : i <= j]
                /\ parseLog[c].raised => FactsOf(raw, path) = {}

\* C1 witness: a directory scan met an artifact that two scanners accept and an
\* artifact whose scanner raised
C1_Witness ==
  /\ pc = "analyzed"
  /\ \E n \in 1..Len(input.files) : Cardinality(Matching(input.files[n].path)) >= 2
  /\ \E c \in 1..Len(parseLog) : parseLog[c].raised

IsNextflowArtifact(path) == path.ext = ".nf"
IsSnakemakeArtifact(path) ==
  path.ext \in {".smk", ".snakefile"} \/ (path.ext = "" /\ path.stem = "Snakefile")

SpecialDialects(files) ==
  {"nextflow" : n \in {n \in 1..Len(files) : IsNextflowArtifact(files[n].path)}}
  \cup {"snakemake" : n \in {n \in 1..Len(files) : IsSnakemakeArtifact(files[n].path)}}

\* C2: a directory whose scanned artifacts include a special-dialect artifact
\* (.nf, or .smk/.snakefile/Snakefile) is reported with that dialect as
\* workflow_type, whatever the artifacts contain.
C2_SpecialDialectWins ==
  (Analyzed /\ input.kind = "dir" /\ SpecialDialects(input.files) # {})
    => result.workflow_type \in SpecialDialects(input.files)

\* the artifacts of a list that a scanner of the Python family accepts
PythonFamily(source_files) ==
  {i \in 1..Len(source_files) :
     can_parse("python", source_files[i]) \/ can_parse("jupyter", source_files[i])}

\* the artifacts of a list that the R scanner accepts
RFamily(source_files) ==
  {i \in 1..Len(source_files) : can_parse("r", source_files[i])}

\* C19: when no special-dialect artifact is among the source artifacts, the
\* dialect is "python" exactly when more artifacts are accepted by the Python
\* family (.py, .ipynb) than by the R family (.r, .rmd), "r" exactly when the
\* R family has more, and "script" when the counts are equal (the empty list
\* included); every artifact a scanner of a family accepted counts for it.
C19_MajorityDialect ==
  (Analyzed /\ FirstSpecial(result.source_files) = None) =>
    result.workflow_type =
      IF Cardinality(PythonFamily(result.source_files))
           > Cardinality(RFamily(result.source_files)) THEN "python"
      ELSE IF Cardinality(RFamily(result.source_files))
                > Cardinality(PythonFamily(result.source_files)) THEN "r"
      ELSE "script"

\* C3: _detect_workflow_type returns the same dialect for every permutation of
\* the list of source artifacts.
C3_DialectOrderIndependent ==
  Analyzed =>
    \A perm \in Perms(1..Len(result.source_files)) :
      _detect_workflow_type([i \in 1..Len(perm) |-> result.source_files[perm[i]]])
        = result.workflow_type

OracleVersion(name) ==
  IF HasKey(installed.py, name) THEN Get(installed.py, name, None)
  ELSE IF HasKey(installed.cli, name) THEN Get(installed.cli, name, None)
  ELSE None

\* C5: after analyze with version detection on, a fact the scanners produced
\* without a version, for which the Version Oracle has none, and whose name is a
\* key of the package map of the directory's Environment Snapshot, carries the
\* declared version.
C5_DeclaredVersionFallback ==
  (Analyzed /\ analyzer.detect_versions) =>
    \A i \in 1..Len(raw) :
      (/\ Falsy(raw[i].version)
       /\ Falsy(OracleVersion(raw[i].name))
       /\ HasKey(result.environment.packages, raw[i].name))
      => result.tools[i].version = Get(result.environment.packages, raw[i].name, None)

Unreadable(art) == art.io # "ok"
ScanRaised(art) == \E c \in CallsFor(art.path) : parseLog[c].raised

\* C9: in a directory scan an unreadable artifact, or one whose scan raised,
\* contributes no fact, does not stop the scan of the others, and has a warning
\* in the result's warning list.
C9_UnreadableArtifactWarned ==
  (Analyzed /\ input.kind = "dir") =>
    \A n \in 1..Len(input.files) :
      (Unreadable(input.files[n]) \/ ScanRaised(input.files[n])) =>
        /\ FactsOf(result.tools, input.files[n].path) = {}
        /\ \A k \in 1..Len(input.files) : CallsFor(input.files[k].path) # {}
        /\ \E w \in 1..Len(result.warnings) :
             /\ result.warnings[w].kind = "failed_to_parse"
             /\ result.warnings[w].path = input.files[n].path

\* C10: parse never raises, whatever the artifact and the scanner.
C10_ParseNeverRaises ==
  \A c \in 1..Len(parseLog) : ~parseLog[c].raised

\* C17: after analyze on a directory, source_files holds the path of every
\* artifact that was scanned, whether or not it yielded facts, as the analyze of
\* a single artifact records its one artifact.
C17_SourceFilesHoldEveryScanned ==
  Analyzed =>
    /\ input.kind = "dir" =>
         \A i \in 1..Len(input.files) : input.files[i].path \in Range(result.source_files)
    /\ input.kind = "file" => result.source_files = <<input.files[1].path>>

----------------------------------------------------------------------------
(* The scorer's specification: reproducibility_check on any analysis *)

Fact(name, version, parameters, category) ==
  ToolInfo(name, version, parameters, category, "analysis.py", 1)

P(k, v) == [k |-> k, v |-> v]

ReproFacts ==
  {Fact("scanpy", None, <<>>, "single-cell"),
   Fact("scanpy", "1.9.3", <<P("random_state", NumV(0))>>, "single-cell"),
   Fact("seurat", None, <<P("SEED", NumV(1))>>, "single-cell"),
   Fact("bwa", "0.7.17", <<>>, "alignment"),
   Fact("deseq2", None, <<P("alpha", NumV(5))>>, "differential-expression"),
   Fact("fastp", "0.23.2",
        <<P("-i", StrV(<<"/", "home", "/", "u", "/", "a.fq">>)),
          P("-o", StrV(<<"/", "tmp", "/", "out.fq">>))>>, "preprocessing"),
   Fact("fastp", "0.23.2",
        <<P("-i", StrV(<<"/", "home", "/", "u", "/", "tmp", "/", "a.fq">>))>>, "preprocessing"),
   Fact("fastp", None, <<P("-o", StrV(<<"/", "var", "/", "out.fq">>))>>, "preprocessing"),
   Fact("fastp", "0.23.2",
        <<P("-w", NumV(8)), P("--detect_adapter_for_pe", BoolV),
          P("-i", StrV(<<"data", "/", "a.fq">>))>>, "preprocessing")}

ReproEnvironments ==
  {[EnvironmentInfo EXCEPT !.requirements_files = r, !.containers = c] :
     r \in {<<>>, <<"requirements.txt">>}, c \in {<<>>, <<"python:3.11">>}}

Analyses ==
  {[AnalysisResult EXCEPT !.tools = tools, !.environment = e, !.workflow_type = w] :
     tools \in UNION {[1..n -> ReproFacts] : n \in 0..MaxTools},
     e \in ReproEnvironments, w \in {"script", "nextflow"}}

InitRepro ==
  /\ pc = "analyzed"
  /\ analyzer = [detect_versions |-> FALSE, tools_database |-> <<>>, cached_versions |-> <<>>]
  /\ installed = [py |-> <<>>, cli |-> <<>>, modules |-> <<>>, failures |-> <<>>]
  /\ input = [kind |-> "none"]
  /\ result \in Analyses
  /\ raw = <<>>
  /\ parseLog = <<>>
  /\ writes = <<>>
  /\ report = ReproducibilityReport

NextRepro == ReproducibilityCheck

SpecRepro == InitRepro /\ [][NextRepro]_vars

Passed == {i \in 1..Len(report.checklist) : report.checklist[i].v = TRUE}

\* C6: for every fact set and environment, the checklist has exactly ten boolean
\* items and the score is (true items / 10) x 100: in [0,100], 100 only when all
\* ten are true, 0 only when all are false.
C6_ScoreFromTenItems ==
  pc = "checked" =>
    /\ Len(report.checklist) = 10
    /\ Cardinality(Keys(report.checklist)) = 10
    /\ \A i \in 1..Len(report.checklist) : report.checklist[i].v \in BOOLEAN
    /\ report.score * 10 = Cardinality(Passed) * 100
    /\ report.score >= 0 /\ report.score <= 100
    /\ report.score = 100 => Cardinality(Passed) = 10
    /\ report.score = 0 => Passed = {}

\* C6 witness: the empty fact set, scored with eight items true
C6_Witness ==
  pc = "checked" /\ result.tools = <<>> /\ Cardinality(Passed) = 8 /\ report.score = 80

\* C27: in every report of reproducibility_check the items "Version control
\* used" and "Public data repositories used" are false and the items "Workflow
\* documented", "Input data sources documented" and "All parameters recorded"
\* are true, whatever the facts, the environment and the workflow type; the
\* score is one of 30, 40, 50, 60, 70, 80.
C27_FixedChecklistItems ==
  pc = "checked" =>
    /\ Get(report.checklist, "Version control used", TRUE) = FALSE
    /\ Get(report.checklist, "Public data repositories used", TRUE) = FALSE
    /\ Get(report.checklist, "Workflow documented", FALSE) = TRUE
    /\ Get(report.checklist, "Input data sources documented", FALSE) = TRUE
    /\ Get(report.checklist, "All parameters recorded", FALSE) = TRUE
    /\ report.score \in {30, 40, 50, 60, 70, 80}

\* C27 witness: a plain script without environment or container, a fact
\* without version or seed and a hard-coded path: score 30, workflow item true
C27_Witness ==
  /\ pc = "checked"
  /\ result.workflow_type = "script"
  /\ report.score = 30
  /\ Get(report.checklist, "Workflow documented", FALSE) = TRUE

IssuesOf(i, category) ==
  {n \in 1..Len(report.issues) :
     report.issues[n].category = category /\ report.issues[n].of = i}

SeedKeys == {"seed", "random_seed", "random_state", "-s", "--seed"}
HasSeedKey(tool) == \E k \in Keys(tool.parameters) : Lower(k) \in SeedKeys
SeedsSpecified == Get(report.checklist, "Random seeds specified", FALSE)

\* C7: an alignment fact without a seed parameter produces no seed issue and does
\* not make "Random seeds specified" false; a single-cell or
\* differential-expression fact without one produces exactly one info issue of
\* category seed; a fact that has a seed key produces none.
C7_SeedIssues ==
  pc = "checked" =>
    /\ \A i \in 1..Len(result.tools) :
         LET tool == result.tools[i]
         IN /\ tool.category = "alignment" => IssuesOf(i, "seed") = {}
            /\ HasSeedKey(tool) => IssuesOf(i, "seed") = {}
            /\ (tool.category \in {"single-cell", "differential-expression"}
                /\ ~HasSeedKey(tool))
                 => /\ Cardinality(IssuesOf(i, "seed")) = 1
                    /\ \A n \in IssuesOf(i, "seed") : report.issues[n].severity = "info"
    /\ ~SeedsSpecified =>
         \E i \in 1..Len(result.tools) :
            /\ result.tools[i].category \in {"single-cell", "differential-expression"}
            /\ ~HasSeedKey(result.tools[i])

\* C7 witness: an alignment fact and a single-cell fact, both without a seed
C7_Witness ==
  /\ pc = "checked"
  /\ \E i, j \in 1..Len(result.tools) :
       /\ result.tools[i].category = "alignment" /\ ~HasSeedKey(result.tools[i])
       /\ result.tools[j].category = "single-cell" /\ ~HasSeedKey(result.tools[j])
       /\ IssuesOf(i, "seed") = {} /\ Cardinality(IssuesOf(j, "seed")) = 1

HardCodedValues(tool) ==
  {j \in 1..Len(tool.parameters) : HasPattern(tool.parameters[j].v, report_path_patterns)}

OneIf(b) == IF b THEN 1 ELSE 0

\* C8 as stated: one version warning per fact without a version, one path
\* warning per fact that has a hard-coded path in its parameters (also when
\* several parameters hold one), one seed info per single-cell or
\* differential-expression fact without a seed; none for a fact that does not
\* offend.
C8_OneIssuePerOffendingFact ==
  pc = "checked" =>
    \A i \in 1..Len(result.tools) :
      LET tool == result.tools[i]
      IN /\ Cardinality(IssuesOf(i, "version")) = OneIf(Falsy(tool.version))
         /\ Cardinality(IssuesOf(i, "path")) = OneIf(HardCodedValues(tool) # {})
         /\ Cardinality(IssuesOf(i, "seed")) =
              OneIf(tool.category \in {"single-cell", "differential-expression"}
                    /\ ~HasSeedKey(tool))

\* C8 as amended: the path warnings of a fact are one per string parameter value
\* that holds a hard-coded path; version and seed issues are one per offending
\* fact; severities are warning for version and path, info for seed.
C8_OnePathIssuePerValue ==
  pc = "checked" =>
    /\ \A i \in 1..Len(result.tools) :
         LET tool == result.tools[i]
         IN /\ Cardinality(IssuesOf(i, "version")) = OneIf(Falsy(tool.version))
            /\ Cardinality(IssuesOf(i, "path")) = Cardinality(HardCodedValues(tool))
            /\ Cardinality(IssuesOf(i, "seed")) =
                 OneIf(tool.category \in {"single-cell", "differential-expression"}
                       /\ ~HasSeedKey(tool))
    /\ \A n \in 1..Len(report.issues) :
         /\ report.issues[n].category \in {"version", "path"}
              => report.issues[n].severity = "warning"
         /\ report.issues[n].category = "seed" => report.issues[n].severity = "info"

\* C8 witness: a fact with two hard-coded parameter values has two path issues,
\* and a fact whose one value holds two patterns has one
C8_Witness ==
  /\ pc = "checked"
  /\ \E i, j \in 1..Len(result.tools) :
       /\ Cardinality(HardCodedValues(result.tools[i])) = 2
       /\ Cardinality(IssuesOf(i, "path")) = 2
       /\ Len(result.tools[j].parameters) = 1
       /\ Cardinality({p \in report_path_patterns :
             HasPattern(result.tools[j].parameters[1].v, {p})}) = 2
       /\ Cardinality(IssuesOf(j, "path")) = 1

----------------------------------------------------------------------------
(* The enrichment specification: the two enrichment passes on any fact list *)

Filled(name, version, citation, category, description, aliases) ==
  [ToolInfo(name, version, <<P("-w", NumV(8))>>, category, "analysis.py", 7)
     EXCEPT !.citation = citation, !.description = description, !.aliases = aliases]

EnrichFacts ==
  {Filled("scanpy", None, None, "unknown", "", <<>>),
   Filled("Scanpy", "1.0", "Own2020", "clustering", "my clustering", <<"sc">>),
   Filled("scanpy", "", "", "single-cell", "", <<>>),
   Filled("fastp", None, None, "preprocessing", "", <<>>),
   Filled("fastp", "0.20.0", "Chen2018", "unknown", "", <<>>),
   Filled("mytool", None, None, "unknown", "", <<>>)}

EnrichPackages == {<<>>, <<P("scanpy", "1.9.3"), P("mytool", "2.0")>>}

InitEnrich ==
  /\ pc = "scanned"
  /\ analyzer \in {a \in Analyzers : a.detect_versions}
  /\ installed \in Machines
  /\ input = [kind |-> "none"]
  /\ \E tools \in UNION {[1..n -> EnrichFacts] : n \in 0..MaxTools}, pk \in EnrichPackages :
       /\ result = [AnalysisResult EXCEPT !.tools = tools, !.environment.packages = pk]
       /\ raw = tools
  /\ parseLog = <<>>
  /\ writes = <<>>
  /\ report = ReproducibilityReport

\* the knowledge-base pass a parser runs over its facts (_enrich_tool_info on each)
KnowledgeBaseEnrichment ==
  /\ pc \in {"scanned", "versions_enriched"}
  /\ raw' = result.tools
  /\ result' = [result EXCEPT !.tools = EnrichAll(analyzer.tools_database, result.tools)]
  /\ writes' = [i \in 1..Len(result.tools) |->
                  LET steps == EnrichSteps(_lookup_tool(analyzer.tools_database,
                                                        result.tools[i].name),
                                           result.tools[i])
                  IN [j \in 1..Len(steps) |-> steps[j][1]]]
  /\ pc' = "kb_enriched"
  /\ UNCHANGED <<analyzer, installed, input, parseLog, report>>

\* Analyzer._enrich_with_versions(result)
VersionEnrichment ==
  /\ pc \in {"scanned", "kb_enriched"}
  /\ \E out \in {_enrich_with_versions(result.tools, analyzer.cached_versions, installed,
                                           result.environment.packages)} :
        /\ raw' = result.tools
        /\ result' = [result EXCEPT !.tools = out.tools]
        /\ analyzer' = [analyzer EXCEPT !.cached_versions = out.cache]
        /\ writes' = [i \in 1..Len(out.writes) |->
                        [j \in 1..out.writes[i] |-> "version"]]
  /\ pc' = "versions_enriched"
  /\ UNCHANGED <<installed, input, parseLog, report>>

NextEnrich == KnowledgeBaseEnrichment \/ VersionEnrichment

SpecEnrich == InitEnrich /\ [][NextEnrich]_vars

\* C4: enrichment is monotone: citation, category, description, alias list and
\* version that are non-empty (category other than "unknown") before a pass keep
\* their value through the knowledge-base pass and the version pass; a field is
\* assigned at most once per pass; name, parameters, source file and position
\* never change.
C4_EnrichmentMonotone ==
  pc \in {"kb_enriched", "versions_enriched"} =>
    /\ Len(result.tools) = Len(raw)
    /\ \A i \in 1..Len(raw) :
         LET before == raw[i]
             after == result.tools[i]
         IN /\ ~Falsy(before.citation) => after.citation = before.citation
            /\ before.category # "unknown" => after.category = before.category
            /\ before.description # "" => after.description = before.description
            /\ before.aliases # <<>> => after.aliases = before.aliases
            /\ ~Falsy(before.version) => after.version = before.version
            /\ after.name = before.name
            /\ after.parameters = before.parameters
            /\ after.source_file = before.source_file
            /\ after.line_number = before.line_number
            /\ \A f \in Range(writes[i]) :
                 Cardinality({j \in 1..Len(writes[i]) : writes[i][j] = f}) = 1

\* C4 witness: the knowledge base knows a fact that already holds its own
\* citation and category, which the pass kept, and a fact whose category it filled
C4_Witness ==
  /\ pc = "kb_enriched"
  /\ \E i, j \in 1..Len(raw) :
       /\ ~Falsy(raw[i].citation) /\ raw[i].category # "unknown"
       /\ _lookup_tool(analyzer.tools_database, raw[i].name) # NoInfo
       /\ result.tools[i].citation = raw[i].citation
       /\ raw[j].category = "unknown" /\ result.tools[j].category # "unknown"

----------------------------------------------------------------------------
(* The scanner specification: one parser object, parse called again and again *)
(* on one artifact whose contents do not change                              *)

MaxCalls == 2

\* a knowledge base whose entries give their citation away to the facts that hit them
ToolsDatabaseConsumed(db, tools) ==
  [i \in 1..Len(db) |->
     IF /\ \E j \in 1..Len(tools) : _normalize_tool_name(tools[j].name) = db[i].k
        /\ "citation" \in DOMAIN db[i].v
     THEN [db[i] EXCEPT !.v.citation = None]
     ELSE db[i]]

\* self.tools_database after a parse that returned `tools`: the parsers read the
\* knowledge base (_lookup_tool, _map_import_to_tool, _get_tool_category) and
\* assign to the facts only
ToolsDatabaseAfterParse(db, tools) == db

InitScan ==
  /\ pc = "scanner"
  /\ analyzer \in Analyzers
  /\ installed \in Machines
  /\ \E p \in Range(parsers), a \in FileArtifacts :
       input = [kind |-> "scan", parser |-> p, art |-> a, db |-> analyzer.tools_database]
  /\ result = AnalysisResult
  /\ raw = <<>>
  /\ parseLog = <<>>
  /\ writes = <<>>
  /\ report = ReproducibilityReport

\* parser.parse(file_path) on the parser's own knowledge base
Parse ==
  /\ pc = "scanner"
  /\ Len(parseLog) < MaxCalls
  /\ \E out \in {parse(input.parser, analyzer.tools_database, input.art)} :
       /\ parseLog' = Append(parseLog, out)
       /\ raw' = out.tools
       /\ analyzer' = [analyzer EXCEPT
                         !.tools_database = ToolsDatabaseAfterParse(@, out.tools)]
  /\ UNCHANGED <<pc, installed, input, result, writes, report>>

NextScan == Parse

SpecScan == InitScan /\ [][NextScan]_vars

----------------------------------------------------------------------------
(* core/models.py: the operations of AnalysisResult and ToolInfo, on any     *)
(* analysis                                                                  *)

\* a key that holds the name only
UniqueKeyName(tool) == <<tool.name>>

\* key = (tool.name, tool.version)
UniqueKey(tool) == <<tool.name, tool.version>>

\* one iteration of get_unique_tools: `seen` holds the keys of `unique`
AddUnique(unique, tool) ==
  IF UniqueKey(tool) \in {UniqueKey(unique[i]) : i \in 1..Len(unique)}
  THEN unique
  ELSE Append(unique, tool)

RECURSIVE get_unique_tools(_)
get_unique_tools(tools) ==
  IF tools = <<>> THEN <<>>
  ELSE AddUnique(get_unique_tools(SubSeq(tools, 1, Len(tools) - 1)), tools[Len(tools)])

\* the method of the dataclass decorator: all fields are compared
DataclassEq(self, other) == self = other

\* ToolInfo.__eq__ for two ToolInfo objects
__eq__(self, other) ==
  /\ self.name = other.name
  /\ self.version = other.version
  /\ self.source_file = other.source_file
  /\ self.line_number = other.line_number

\* ToolInfo.__hash__: the hash of a tuple, which is a function of the tuple
__hash__(self) == <<"hash", <<self.name, self.version, self.source_file, self.line_number>> >>

\* set.add: an element is not added when the set holds one with its hash that is
\* equal to it
SetAdd(elems, tool) ==
  IF \E i \in 1..Len(elems) : __hash__(elems[i]) = __hash__(tool) /\ __eq__(elems[i], tool)
  THEN elems
  ELSE Append(elems, tool)

\* set(tools), its elements in the order of their insertion
RECURSIVE SetOf(_)
SetOf(tools) ==
  IF tools = <<>> THEN <<>>
  ELSE SetAdd(SetOf(SubSeq(tools, 1, Len(tools) - 1)), tools[Len(tools)])

\* the facts of the analyses: those of the scorer, and two that differ from the
\* first of them in the position and in the source artifact only
ModelsFacts ==
  ReproFacts \cup
  {ToolInfo("scanpy", None, <<>>, "single-cell", "analysis.py", 4),
   ToolInfo("scanpy", None, <<>>, "single-cell", "other.py", 1)}

InitModels ==
  /\ pc = "analysis"
  /\ analyzer = [detect_versions |-> FALSE, tools_database |-> <<>>, cached_versions |-> <<>>]
  /\ installed = [py |-> <<>>, cli |-> <<>>, modules |-> <<>>, failures |-> <<>>]
  /\ input = [kind |-> "none"]
  /\ \E tools \in UNION {[1..n -> ModelsFacts] : n \in 0..MaxTools} :
       result = [AnalysisResult EXCEPT !.tools = tools]
  /\ raw = <<>>
  /\ parseLog = <<>>
  /\ writes = <<>>
  /\ report = ReproducibilityReport

\* result.get_unique_tools(): `raw` is the list it returns
GetUniqueTools ==
  /\ pc = "analysis"
  /\ input' = [kind |-> "get_unique_tools", tools |-> result.tools]
  /\ raw' = get_unique_tools(result.tools)
  /\ pc' = "unique"
  /\ UNCHANGED <<analyzer, installed, result, parseLog, writes, report>>

\* set(result.tools): `raw` holds the elements of the set
SetOfTools ==
  /\ pc = "analysis"
  /\ input' = [kind |-> "set", tools |-> result.tools]
  /\ raw' = SetOf(result.tools)
  /\ pc' = "set"
  /\ UNCHANGED <<analyzer, installed, result, parseLog, writes, report>>

NextModels == GetUniqueTools \/ SetOfTools

SpecModels == InitModels /\ [][NextModels]_vars

\* the index of the first fact of `tools` with the name and version of `tool`
FirstOf(tools, tool) ==
  CHOOSE i \in 1..Len(tools) :
    /\ tools[i].name = tool.name /\ tools[i].version = tool.version
    /\ \A j \in 1..(i - 1) : ~(tools[j].name = tool.name /\ tools[j].version = tool.version)

\* C12: get_unique_tools over N facts returns at most N facts, no two with the
\* same (name, version); every (name, version) of the input appears exactly once
\* in the output, as its first occurrence, in input order; the fact list is left
\* as it was.
C12_UniqueTools ==
  pc = "unique" =>
    /\ Len(raw) <= Len(input.tools)
    /\ \A i, j \in 1..Len(raw) :
         (raw[i].name = raw[j].name /\ raw[i].version = raw[j].version) => i = j
    /\ \A i \in 1..Len(input.tools) :
         Cardinality({j \in 1..Len(raw) : /\ raw[j].name = input.tools[i].name
                                          /\ raw[j].version = input.tools[i].version}) = 1
    /\ \A j \in 1..Len(raw) : raw[j] = input.tools[FirstOf(input.tools, raw[j])]
    /\ \A j, k \in 1..Len(raw) :
         j < k => FirstOf(input.tools, raw[j]) < FirstOf(input.tools, raw[k])
    /\ result.tools = input.tools

\* C12 witness: two facts of one name and version with different parameters, of
\* which the output holds one
C12_Witness ==
  /\ pc = "unique"
  /\ Len(raw) < Len(input.tools)
  /\ \E i, j \in 1..Len(input.tools) :
       /\ i < j
       /\ input.tools[i].name = input.tools[j].name
       /\ input.tools[i].version = input.tools[j].version
       /\ input.tools[i].parameters # input.tools[j].parameters

\* (name, version, source artifact, position)
IdentityTuple(tool) == <<tool.name, tool.version, tool.source_file, tool.line_number>>

\* C16: two facts are equal if and only if their (name, version, source
\* artifact, position) tuples are equal, whatever their parameters, category,
\* citation, description and aliases; equal facts have equal hashes; a set of
\* facts holds one element per distinct tuple.
C16_IdentityTuple ==
  pc = "set" =>
    /\ \A i, j \in 1..Len(input.tools) :
         /\ __eq__(input.tools[i], input.tools[j])
              <=> IdentityTuple(input.tools[i]) = IdentityTuple(input.tools[j])
         /\ __eq__(input.tools[i], input.tools[j])
              => __hash__(input.tools[i]) = __hash__(input.tools[j])
    /\ Len(raw) = Cardinality({IdentityTuple(input.tools[i]) : i \in 1..Len(input.tools)})
    /\ \A i, j \in 1..Len(raw) : IdentityTuple(raw[i]) = IdentityTuple(raw[j]) => i = j

\* C16 witness: two facts of one tuple with different parameters became one
\* element of the set
C16_Witness ==
  /\ pc = "set"
  /\ Len(raw) = 1
  /\ \E i, j \in 1..Len(input.tools) :
       /\ input.tools[i].parameters # input.tools[j].parameters
       /\ IdentityTuple(input.tools[i]) = IdentityTuple(input.tools[j])

----------------------------------------------------------------------------
(* parsers/python_parser.py: shell commands.  A command is the list of its   *)
(* words (command.strip().split()); a word is the sequence of its pieces, so *)
(* that startswith("-") and the split at "/" are computed.                   *)

MaxArgs == 3

\* str.startswith(prefix) on a word
StartsWith(word, prefix) == word # <<>> /\ word[1] = prefix

\* tool_cmd.split("/")[-1]: the pieces after the last "/"
RECURSIVE LastSegment(_)
LastSegment(word) ==
  IF word = <<>> THEN <<>>
  ELSE IF word[Len(word)] = "/" THEN <<>>
  ELSE Append(LastSegment(SubSeq(word, 1, Len(word) - 1)), word[Len(word)])

\* parts[0].lower(), piece by piece
LowerWord(word) == [i \in 1..Len(word) |-> Lower(word[i])]

\* PythonParser.SHELL_TOOLS.get(tool_cmd), on the commands the model uses
SHELL_TOOLS(tool_cmd) ==
  CASE tool_cmd = <<"fastp">> -> "fastp"
    [] tool_cmd = <<"bwa">> -> "bwa"
    [] tool_cmd = <<"htseq-count">> -> "htseq"
    [] tool_cmd = <<"bgzip">> -> "htslib"
    [] tool_cmd = <<"vcftools">> -> "vcftools"
    [] OTHER -> None

\* PythonParser._get_tool_category: the knowledge base first, then the table
_get_tool_category(db, tool_name) ==
  IF HasKey(db, tool_name) THEN EntryGet(Get(db, tool_name, NoInfo), "category", "unknown")
  ELSE CASE tool_name \in {"bwa", "samtools"} -> "alignment"
         [] tool_name = "htseq" -> "quantification"
         [] tool_name = "fastp" -> "preprocessing"
         [] tool_name = "scanpy" -> "single-cell"
         [] OTHER -> "unknown"

\* a flag that takes the next word whatever it is
TakesValueAlways(args, i) == i + 1 <= Len(args)

\* i + 1 < len(args) and not args[i + 1].startswith("-"), for the 1-based i
TakesValue(args, i) == i + 1 <= Len(args) /\ ~StartsWith(args[i + 1], "-")

\* the while loop of _parse_command_parameters from index i on
RECURSIVE ParseArgsFrom(_, _, _)
ParseArgsFrom(args, i, params) ==
  IF i > Len(args) THEN params
  ELSE IF StartsWith(args[i], "-")
  THEN IF TakesValue(args, i)
       THEN ParseArgsFrom(args, i + 2, Put(params, args[i], StrV(args[i + 1])))
       ELSE ParseArgsFrom(args, i + 1, Put(params, args[i], BoolV))
  ELSE IF ~HasKey(params, <<"input">>)
  THEN ParseArgsFrom(args, i + 1, Put(params, <<"input">>, StrV(args[i])))
  ELSE ParseArgsFrom(args, i + 1, Put(params, <<"output">>, StrV(args[i])))

_parse_command_parameters(args) == ParseArgsFrom(args, 1, <<>>)

\* tool_cmd of _parse_shell_command
ToolCmd(word) ==
  IF "/" \in Range(LowerWord(word)) THEN LastSegment(LowerWord(word)) ELSE LowerWord(word)

\* _parse_shell_command: the list of the fact it returns, empty when it returns None
_parse_shell_command(db, parts, source_file, line_number) ==
  IF parts = <<>> THEN <<>>
  ELSE IF Falsy(SHELL_TOOLS(ToolCmd(parts[1]))) THEN <<>>
  ELSE <<ToolInfo(SHELL_TOOLS(ToolCmd(parts[1])), None,
                  _parse_command_parameters(Tail(parts)),
                  _get_tool_category(db, SHELL_TOOLS(ToolCmd(parts[1]))),
                  source_file, line_number)>>

\* the words that follow the command
ArgWords ==
  {<<"-", "i">>, <<"-", "w">>, <<"-", "-", "detect_adapter_for_pe">>, <<"-", "1">>,
   <<"a.fq.gz">>, <<"b.fq.gz">>, <<"8">>}

CommandWords ==
  {<<"fastp">>, <<"/", "usr", "/", "bin", "/", "bwa">>, <<"htseq-count">>, <<"ls">>,
   <<"tools", "/">>}

\* fastp -i a.fq.gz -I b.fq.gz -w 8 --detect_adapter_for_pe
FastpCommand ==
  <<<<"fastp">>, <<"-", "i">>, <<"a.fq.gz">>, <<"-", "I">>, <<"b.fq.gz">>, <<"-", "w">>, <<"8">>,
    <<"-", "-", "detect_adapter_for_pe">>>>

Commands ==
  {<<c>> \o args : c \in CommandWords, args \in UNION {[1..n -> ArgWords] : n \in 0..MaxArgs}}
  \cup {<<>>, FastpCommand}

InitCommand ==
  /\ pc = "command"
  /\ analyzer \in {a \in Analyzers : ~a.detect_versions}
  /\ installed = [py |-> <<>>, cli |-> <<>>, modules |-> <<>>, failures |-> <<>>]
  /\ \E parts \in Commands : input = [kind |-> "command", parts |-> parts]
  /\ result = AnalysisResult
  /\ raw = <<>>
  /\ parseLog = <<>>
  /\ writes = <<>>
  /\ report = ReproducibilityReport

\* _extract_shell_commands on one subprocess call at line 3 of pipeline.py
ParseShellCommand ==
  /\ pc = "command"
  /\ raw' = _parse_shell_command(analyzer.tools_database, input.parts, "pipeline.py", 3)
  /\ pc' = "fact"
  /\ UNCHANGED <<analyzer, installed, input, result, parseLog, writes, report>>

NextCommand == ParseShellCommand

SpecCommand == InitCommand /\ [][NextCommand]_vars

\* the words after the command of the last call
Args == Tail(input.parts)

IsFlag(i) == StartsWith(Args[i], "-")

\* a word that is the value of the flag before it
IsValue(i) == i > 1 /\ IsFlag(i - 1) /\ ~IsFlag(i)

Positionals == {i \in 1..Len(Args) : ~IsFlag(i) /\ ~IsValue(i)}

\* what a flag maps to: the next word, or true when there is none or it is a flag
FlagValue(i) ==
  IF i < Len(Args) /\ ~IsFlag(i + 1) THEN StrV(Args[i + 1]) ELSE BoolV

\* C13: _parse_command_parameters scans left to right: a word starting with a
\* dash takes the next word as its value and skips it, unless there is no next
\* word or it starts with a dash too, when the flag maps to true (the last
\* occurrence of a flag decides); a word that is neither is stored under "input"
\* if that key is unset, otherwise under "output".  The fastp command yields one
\* fact named fastp with {-i: a.fq.gz, -I: b.fq.gz, -w: 8, --detect_adapter_for_pe: true}.
C13_CommandParameters ==
  (pc = "fact" /\ raw # <<>>) =>
    /\ Len(raw) = 1
    /\ \A i, j \in 1..Len(raw[1].parameters) :
         raw[1].parameters[i].k = raw[1].parameters[j].k => i = j
    /\ Keys(raw[1].parameters) =
         {Args[i] : i \in {j \in 1..Len(Args) : IsFlag(j)}}
         \cup (IF Positionals # {} THEN {<<"input">>} ELSE {})
         \cup (IF Cardinality(Positionals) >= 2 THEN {<<"output">>} ELSE {})
    /\ \A i \in 1..Len(Args) :
         (IsFlag(i) /\ \A j \in (i + 1)..Len(Args) : Args[j] # Args[i])
           => Get(raw[1].parameters, Args[i], None) = FlagValue(i)
    /\ \A i \in Positionals :
         /\ (\A j \in Positionals : i <= j)
              => Get(raw[1].parameters, <<"input">>, None) = StrV(Args[i])
         /\ (Cardinality(Positionals) >= 2 /\ \A j \in Positionals : j <= i)
              => Get(raw[1].parameters, <<"output">>, None) = StrV(Args[i])
    /\ input.parts = FastpCommand =>
         /\ raw[1].name = "fastp"
         /\ raw[1].parameters =
              <<P(<<"-", "i">>, StrV(<<"a.fq.gz">>)), P(<<"-", "I">>, StrV(<<"b.fq.gz">>)),
                P(<<"-", "w">>, StrV(<<"8">>)),
                P(<<"-", "-", "detect_adapter_for_pe">>, BoolV)>>

\* C13 witness: the fastp command of the example has been parsed
C13_Witness ==
  /\ pc = "fact"
  /\ input.parts = FastpCommand
  /\ Len(raw) = 1

----------------------------------------------------------------------------
(* parsers/nextflow_parser.py: container images.  An image reference is the  *)
(* sequence of its pieces; digit groups, ".", ":", "/" and "v" are pieces of *)
(* their own, so that the regular expression is matched and not tabulated.   *)

\* \d+ on the pieces the model uses
IsDigits(piece) == piece \in {"0", "1", "2", "9", "23", "5000"}

\* [\d.]
VersionChar(piece) == IsDigits(piece) \/ piece = "."

\* "".join(pieces)
RECURSIVE Join(_)
Join(pieces) == IF pieces = <<>> THEN "" ELSE Head(pieces) \o Join(Tail(pieces))

\* the longest run of [\d.] that starts at piece i
RECURSIVE VersionRun(_, _)
VersionRun(image, i) ==
  IF i <= Len(image) /\ VersionChar(image[i])
  THEN <<image[i]>> \o VersionRun(image, i + 1)
  ELSE <<>>

\* the group of :([v]?[\d.]+) when the pattern matches at piece i, else <<>>
VersionMatchAt(image, i) ==
  IF image[i] # ":" THEN <<>>
  ELSE IF i + 1 <= Len(image) /\ image[i + 1] = "v" /\ VersionRun(image, i + 2) # <<>>
  THEN <<"v">> \o VersionRun(image, i + 2)
  ELSE VersionRun(image, i + 1)

\* re.search(r":([v]?[\d.]+)", image): the leftmost match in the whole reference
VersionSearch(image) ==
  IF \E i \in 1..Len(image) : VersionMatchAt(image, i) # <<>>
  THEN Join(VersionMatchAt(image, CHOOSE i \in 1..Len(image) :
                                    /\ VersionMatchAt(image, i) # <<>>
                                    /\ \A j \in 1..(i - 1) : VersionMatchAt(image, j) = <<>>))
  ELSE None

\* NextflowParser.CONTAINER_TOOL_MAP in its order, on the keys the model uses
CONTAINER_TOOL_MAP ==
  <<[k |-> "bwa", v |-> "bwa"], [k |-> "samtools", v |-> "samtools"],
    [k |-> "fastp", v |-> "fastp"], [k |-> "subread", v |-> "featurecounts"]>>

\* NextflowParser._get_tool_category
NextflowToolCategory(tool_name) ==
  CASE tool_name \in {"bwa", "samtools"} -> "alignment"
    [] tool_name = "featurecounts" -> "quantification"
    [] tool_name = "fastp" -> "preprocessing"
    [] OTHER -> "unknown"

\* the keys of CONTAINER_TOOL_MAP that image_lower holds (tool_key in image_lower)
ContainerKeys(image) ==
  {i \in 1..Len(CONTAINER_TOOL_MAP) : Contains(LowerWord(image), <<CONTAINER_TOOL_MAP[i].k>>)}

\* _parse_container_image: the list of the fact it returns, empty when it returns None
_parse_container_image(image, source_file, process_name) ==
  IF ContainerKeys(image) = {} THEN <<>>
  ELSE <<[ToolInfo(CONTAINER_TOOL_MAP[CHOOSE i \in ContainerKeys(image) :
                                        \A j \in ContainerKeys(image) : i <= j].v,
                   VersionSearch(image), <<>>,
                   NextflowToolCategory(
                     CONTAINER_TOOL_MAP[CHOOSE i \in ContainerKeys(image) :
                                          \A j \in ContainerKeys(image) : i <= j].v),
                   source_file, 0)
          EXCEPT !.description =
                   "Container: " \o Join(image) \o " (process: " \o process_name \o ")"]>>

\* the parts of an image reference: registry, repository path, image name, tag
\* or digest
ImageRegistries == {<<>>, <<"quay.io", "/">>, <<"localhost", ":", "5000", "/">>}
ImageRepositories == {<<>>, <<"biocontainers", "/">>}
ImageNames ==
  {<<"fastp">>, <<"mulled-", "v", "2", "-", "bwa", "-", "samtools">>, <<"subread">>,
   <<"ubuntu">>}
ImageTags ==
  {<<>>, <<":", "0", ".", "23", ".", "2", "--h79da9fb_0">>, <<":", "v", "1", ".", "9">>,
   <<":", "latest">>, <<":", "v">>, <<"@sha256", ":", "9", "f3a">>}

InitContainer ==
  /\ pc = "container"
  /\ analyzer = [detect_versions |-> FALSE, tools_database |-> <<>>, cached_versions |-> <<>>]
  /\ installed = [py |-> <<>>, cli |-> <<>>, modules |-> <<>>, failures |-> <<>>]
  /\ \E g \in ImageRegistries, r \in ImageRepositories, n \in ImageNames, t \in ImageTags :
       input = [kind |-> "image", registry |-> g, repository |-> r, name |-> n, tag |-> t,
                image |-> g \o r \o n \o t]
  /\ result = AnalysisResult
  /\ raw = <<>>
  /\ parseLog = <<>>
  /\ writes = <<>>
  /\ report = ReproducibilityReport

\* the container directive of process ALIGN in main.nf
ParseContainerImage ==
  /\ pc = "container"
  /\ raw' = _parse_container_image(input.image, "main.nf", "ALIGN")
  /\ pc' = "fact"
  /\ UNCHANGED <<analyzer, installed, input, result, parseLog, writes, report>>

NextContainer == ParseContainerImage

SpecContainer == InitContainer /\ [][NextContainer]_vars

\* the version-looking token that follows the colon of the tag, None without one
TagVersion(tag) ==
  IF tag # <<>> /\ tag[1] = ":" /\ VersionMatchAt(tag, 1) # <<>>
  THEN Join(VersionMatchAt(tag, 1))
  ELSE None

\* C14: for every image reference that holds a known tool key,
\* _parse_container_image returns one fact named by the canonical-tool table,
\* whose version is the version-looking token that follows the colon of the tag
\* portion and is absent when the tag has no such token; fastp:0.23.2--h79da9fb_0
\* at quay.io/biocontainers gives fastp, 0.23.2; a reference without a known key
\* yields no fact.
C14_ContainerVersionFromTag ==
  pc = "fact" =>
    /\ ContainerKeys(input.image) = {} <=> raw = <<>>
    /\ raw # <<>> =>
         /\ Len(raw) = 1
         /\ raw[1].name \in {CONTAINER_TOOL_MAP[i].v : i \in ContainerKeys(input.image)}
         /\ raw[1].version = TagVersion(input.tag)

----------------------------------------------------------------------------
(* parsers/r_parser.py: library calls.  A source line is the sequence of its *)
(* pieces: words (\w+), blanks, quotes, brackets and dots are pieces of      *)
(* their own, and a pattern is the sequence of its elements.                 *)

\* \w+ : a piece that is a word
IsWord(piece) == piece \notin {" ", "(", ")", "'", "\"", ".", ","}

Lit(s) == [t |-> "lit", s |-> s]
Blanks == [t |-> "blanks", s |-> ""]
Quote == [t |-> "quote", s |-> ""]
Group == [t |-> "group", s |-> ""]

NoMatch == [ok |-> FALSE, group |-> ""]

\* re.match of the elements k.. of a pattern at piece i of the line, with
\* re.IGNORECASE; `group` is the text of (\w+)
RECURSIVE MatchFrom(_, _, _, _, _)
MatchFrom(pattern, k, line, i, group) ==
  IF k > Len(pattern) THEN [ok |-> TRUE, group |-> group]
  ELSE CASE pattern[k].t = "lit" ->
              IF i <= Len(line) /\ Lower(line[i]) = pattern[k].s
              THEN MatchFrom(pattern, k + 1, line, i + 1, group)
              ELSE NoMatch
         [] pattern[k].t = "blanks" ->
              IF i <= Len(line) /\ line[i] = " "
              THEN MatchFrom(pattern, k, line, i + 1, group)
              ELSE MatchFrom(pattern, k + 1, line, i, group)
         [] pattern[k].t = "quote" ->
              IF i <= Len(line) /\ line[i] \in {"'", "\""}
              THEN MatchFrom(pattern, k + 1, line, i + 1, group)
              ELSE MatchFrom(pattern, k + 1, line, i, group)
         [] pattern[k].t = "group" ->
              IF i <= Len(line) /\ IsWord(line[i])
              THEN MatchFrom(pattern, k + 1, line, i + 1, line[i])
              ELSE NoMatch

\* re.findall(pattern, line, re.IGNORECASE): the groups of the matches, left to right
FindAll(pattern, line) ==
  Flatten([i \in 1..Len(line) |->
             IF MatchFrom(pattern, 1, line, i, "").ok
             THEN <<MatchFrom(pattern, 1, line, i, "").group>>
             ELSE <<>>])

\* the five patterns of _extract_library_calls, in their order
library_patterns ==
  <<<<Lit("library"), Blanks, Lit("("), Blanks, Quote, Group, Quote, Blanks, Lit(")")>>,
    <<Lit("library"), Blanks, Lit("("), Blanks, Group, Blanks, Lit(")")>>,
    <<Lit("require"), Blanks, Lit("("), Blanks, Quote, Group, Quote, Blanks, Lit(")")>>,
    <<Lit("require"), Blanks, Lit("("), Blanks, Group, Blanks, Lit(")")>>,
    <<Lit("p_load"), Blanks, Lit("("), Quote, Group, Quote>>>>

\* RParser.R_PACKAGE_MAP.get(package_name, package_name)
R_PACKAGE_MAP(package_name) ==
  CASE package_name = "clusterprofile" -> "clusterprofiler"
    [] OTHER -> package_name

\* RParser._get_r_tool_category
_get_r_tool_category(tool_name) ==
  CASE tool_name \in {"deseq2", "edger", "limma"} -> "differential-expression"
    [] tool_name \in {"seurat", "monocle"} -> "single-cell"
    [] tool_name = "clusterprofiler" -> "enrichment"
    [] tool_name = "ggplot2" -> "visualization"
    [] OTHER -> "unknown"

\* the facts of the matches of one pattern
LibraryTools(matches, source_file, line_number) ==
  [i \in 1..Len(matches) |->
     ToolInfo(R_PACKAGE_MAP(Lower(matches[i])), None, <<>>,
              _get_r_tool_category(R_PACKAGE_MAP(Lower(matches[i]))),
              source_file, line_number)]

_extract_library_calls(line, source_file, line_number) ==
  Flatten([k \in 1..Len(library_patterns) |->
             LibraryTools(FindAll(library_patterns[k], line), source_file, line_number)])

\* the R lines with one library call: an optional wrapping call, blanks, the
\* package name quoted or not
LibraryPackages ==
  {<<"DESeq2">>, <<"Seurat">>, <<"clusterProfile">>, <<"ggplot2">>, <<"data", ".", "table">>}

LibraryLines ==
  {[package |-> Join(x),
    quoted |-> q # <<>>,
    line |-> w[1] \o <<c>> \o b1 \o <<"(">> \o b2 \o q \o x \o q \o b2 \o <<")">> \o w[2]] :
     x \in LibraryPackages, q \in {<<>>, <<"'">>, <<"\"">>}, b1 \in {<<>>, <<" ">>},
     b2 \in {<<>>, <<" ">>}, c \in {"library", "Library"},
     w \in {<<<<>>, <<>>>>, <<<<"suppressMessages", "(">>, <<")">>>>}}

InitLibrary ==
  /\ pc = "line"
  /\ analyzer = [detect_versions |-> FALSE, tools_database |-> <<>>, cached_versions |-> <<>>]
  /\ installed = [py |-> <<>>, cli |-> <<>>, modules |-> <<>>, failures |-> <<>>]
  /\ \E l \in LibraryLines :
       input = [kind |-> "line", line |-> l.line, package |-> l.package, quoted |-> l.quoted]
  /\ result = AnalysisResult
  /\ raw = <<>>
  /\ parseLog = <<>>
  /\ writes = <<>>
  /\ report = ReproducibilityReport

\* RParser._extract_library_calls on line 3 of analysis.R
ExtractLibraryCalls ==
  /\ pc = "line"
  /\ raw' = _extract_library_calls(input.line, "analysis.R", 3)
  /\ pc' = "fact"
  /\ UNCHANGED <<analyzer, installed, input, result, parseLog, writes, report>>

NextLibrary == ExtractLibraryCalls

SpecLibrary == InitLibrary /\ [][NextLibrary]_vars

\* C15: for every source line that holds a single library(X) call, X quoted or
\* not, _extract_library_calls returns exactly one fact, named by the package
\* map entry of lowercased X, or lowercased X itself when unmapped.
C15_OneFactPerLibraryCall ==
  pc = "fact" =>
    /\ Len(raw) = 1
    /\ raw[1].name = R_PACKAGE_MAP(Lower(input.package))

----------------------------------------------------------------------------
(* core/analyzer.py: Analyzer.get_tool_info, and the lookup specification:    *)
(* one query name looked up through both entry points of one knowledge base. *)

\* the entries whose alias list holds the query once each alias is lower-cased
LowerAliasHits(db, normalized) ==
  {i \in 1..Len(db) :
     \E j \in 1..Len(EntryGet(db[i].v, "aliases", <<>>)) :
        Lower(EntryGet(db[i].v, "aliases", <<>>)[j]) = normalized}

FirstHit(db, hits) == db[CHOOSE i \in hits : \A j \in hits : i <= j].v

get_tool_info(db, tool_name) ==
  IF HasKey(db, ReplaceSep(Lower(tool_name)))
  THEN Get(db, ReplaceSep(Lower(tool_name)), NoInfo)
  ELSE IF LowerAliasHits(db, ReplaceSep(Lower(tool_name))) # {}
       THEN FirstHit(db, LowerAliasHits(db, ReplaceSep(Lower(tool_name))))
       ELSE NoInfo

MaxEntries == 2

LookupEntries ==
  {[k |-> "scanpy", v |-> [aliases |-> <<"Scanpy">>, category |-> "single-cell"]],
   [k |-> "bwa", v |-> [aliases |-> <<"bwa-mem2">>, category |-> "alignment"]],
   [k |-> "star", v |-> [aliases |-> <<"star aligner", "bwa-mem2">>,
                         category |-> "alignment"]],
   [k |-> "scikit_learn", v |-> [category |-> "machine-learning"]]}

\* knowledge bases: dicts of at most MaxEntries entries, in every order
LookupDatabases ==
  {db \in UNION {[1..n -> LookupEntries] : n \in 0..MaxEntries} :
     \A i, j \in 1..Len(db) : db[i].k = db[j].k => i = j}

QueryNames ==
  {"scanpy", "Scanpy", "bwa", "bwa-mem2", "bwa_mem2", "star aligner",
   "scikit-learn", "mytool"}

InitLookup ==
  /\ pc = "init"
  /\ analyzer \in {[detect_versions |-> FALSE, tools_database |-> db,
                    cached_versions |-> <<>>] : db \in LookupDatabases}
  /\ installed = [py |-> <<>>, cli |-> <<>>, modules |-> <<>>, failures |-> <<>>]
  /\ input \in {[kind |-> "query", name |-> q] : q \in QueryNames}
  /\ result = AnalysisResult
  /\ raw = <<>>
  /\ parseLog = <<>>
  /\ writes = <<>>
  /\ report = ReproducibilityReport

Called(op) == \E i \in 1..Len(parseLog) : parseLog[i].op = op

\* a scanner looks the name up
LookupTool ==
  /\ ~Called("_lookup_tool")
  /\ parseLog' = Append(parseLog,
        [op |-> "_lookup_tool",
         ret |-> _lookup_tool(analyzer.tools_database, input.name)])
  /\ pc' = "looked_up"
  /\ UNCHANGED <<analyzer, installed, input, result, raw, writes, report>>

\* the caller asks the analyzer for the same name
GetToolInfo ==
  /\ ~Called("get_tool_info")
  /\ parseLog' = Append(parseLog,
        [op |-> "get_tool_info",
         ret |-> get_tool_info(analyzer.tools_database, input.name)])
  /\ pc' = "looked_up"
  /\ UNCHANGED <<analyzer, installed, input, result, raw, writes, report>>

NextLookup == LookupTool \/ GetToolInfo

SpecLookup == InitLookup /\ [][NextLookup]_vars

\* the entries one of whose aliases has the normalized form of the query
AliasEntries(db, name) ==
  {db[i].v : i \in {i \in 1..Len(db) :
     \E j \in 1..Len(EntryGet(db[i].v, "aliases", <<>>)) :
        _normalize_tool_name(EntryGet(db[i].v, "aliases", <<>>)[j])
          = _normalize_tool_name(name)}}

\* what the lookup contract allows a lookup of `name` in `db` to return
LookupContract(db, name, ret) ==
  IF HasKey(db, _normalize_tool_name(name))
  THEN ret = Get(db, _normalize_tool_name(name), NoInfo)
  ELSE IF AliasEntries(db, name) # {} THEN ret \in AliasEntries(db, name)
  ELSE ret = NoInfo

\* C18: every lookup, through either entry point, returns the entry stored
\* under the normalized query if there is one, otherwise an entry one of whose
\* aliases has the same normalized form, otherwise nothing; the two entry
\* points return the same entry for the same query and knowledge base; with an
\* empty knowledge base every lookup misses.
C18_LookupEntryPointsAgree ==
  /\ \A i \in 1..Len(parseLog) :
        /\ LookupContract(analyzer.tools_database, input.name, parseLog[i].ret)
        /\ analyzer.tools_database = <<>> => parseLog[i].ret = NoInfo
  /\ \A i, j \in 1..Len(parseLog) : parseLog[i].ret = parseLog[j].ret

----------------------------------------------------------------------------
(* parsers/nextflow_parser.py: _extract_processes.  The text of a workflow    *)
(* file is a sequence of pieces: the braces, the words of a block header,     *)
(* filler text, and whole directives (a script section, a container          *)
(* directive).                                                                *)

\* [^}]* at i: the length of the longest run of pieces other than "}"
RECURSIVE Run(_, _)
Run(s, i) == IF i > Len(s) \/ s[i] = "}" THEN 0 ELSE 1 + Run(s, i + 1)

\* the choice a greedy, backtracking matcher takes first: the longest first
\* run, then the longest second run
Best(choices) ==
  CHOOSE c \in choices :
    \A d \in choices : c[1] > d[1] \/ (c[1] = d[1] /\ c[2] >= d[2])

\* (?:\{[^}]*\}[^}]*)*\} tried at i: the position of the closing "}" of the
\* first match the backtracking finds, 0 when there is none
RECURSIVE CloseFrom(_, _)
RECURSIVE IterChoices(_, _)
\* one iteration \{[^}]*\}[^}]* at i after which the rest still matches: the
\* lengths of its two runs
IterChoices(s, i) ==
  {mk \in (0..Len(s)) \X (0..Len(s)) :
     /\ mk[1] <= Run(s, i + 1)
     /\ i + 1 + mk[1] <= Len(s)
     /\ s[i + 1 + mk[1]] = "}"
     /\ mk[2] <= Run(s, i + 2 + mk[1])
     /\ CloseFrom(s, i + 2 + mk[1] + mk[2]) # 0}

CloseFrom(s, i) ==
  IF i > Len(s) THEN 0
  ELSE IF s[i] = "{" /\ IterChoices(s, i) # {}
  THEN CloseFrom(s, i + 2 + Best(IterChoices(s, i))[1] + Best(IterChoices(s, i))[2])
  ELSE IF s[i] = "}" THEN i
  ELSE 0

\* the lengths of [^}]+ at i after which the rest of the pattern matches
BodyRuns(s, i) == {n \in 1..Run(s, i) : CloseFrom(s, i + n) # 0}

Longest(runs) == CHOOSE n \in runs : \A m \in runs : n >= m

\* ([^}]+(?:\{[^}]*\}[^}]*)*)\} at i: the position of the closing "}", 0
\* without a match
BodyClose(s, i) ==
  IF BodyRuns(s, i) = {} THEN 0 ELSE CloseFrom(s, i + Longest(BodyRuns(s, i)))

ProcessNames == {"A"}

\* process_pattern at i: process\s+(\w+)\s*\{ and then the body
ProcessMatchEnd(s, i) ==
  IF i + 2 <= Len(s) /\ s[i] = "process" /\ s[i + 1] \in ProcessNames /\ s[i + 2] = "{"
  THEN BodyClose(s, i + 3)
  ELSE 0

\* re.findall(process_pattern, content, re.DOTALL) from i on
RECURSIVE ProcessesFrom(_, _)
ProcessesFrom(s, i) ==
  IF i > Len(s) THEN <<>>
  ELSE IF ProcessMatchEnd(s, i) # 0
  THEN <<[process_name |-> s[i + 1],
          process_body |-> SubSeq(s, i + 3, ProcessMatchEnd(s, i) - 1)]>>
       \o ProcessesFrom(s, ProcessMatchEnd(s, i) + 1)
  ELSE ProcessesFrom(s, i + 1)

\* the script section of the model: script: """ fastp -i a.fq """
ScriptSection == "script"
\* the container directive of the model: container 'fastp:0.23.2'
ContainerDirective == "container"
ContainerImage == <<"fastp", ":", "0", ".", "23", ".", "2">>

\* _parse_script_commands on the script section: one known command
_parse_script_commands(source_file, process_name) ==
  <<[ToolInfo("fastp", None, <<[k |-> "-i", v |-> "a.fq"]>>,
              NextflowToolCategory("fastp"), source_file, 0)
     EXCEPT !.description = "Used in process: " \o process_name]>>

RECURSIVE ScriptTools(_, _, _)
ScriptTools(body, source_file, process_name) ==
  IF body = <<>> THEN <<>>
  ELSE (IF Head(body) = ScriptSection
        THEN _parse_script_commands(source_file, process_name) ELSE <<>>)
       \o ScriptTools(Tail(body), source_file, process_name)

RECURSIVE ContainerTools(_, _, _)
ContainerTools(body, source_file, process_name) ==
  IF body = <<>> THEN <<>>
  ELSE (IF Head(body) = ContainerDirective
        THEN _parse_container_image(ContainerImage, source_file, process_name)
        ELSE <<>>)
       \o ContainerTools(Tail(body), source_file, process_name)

RECURSIVE ProcessTools(_, _)
ProcessTools(processes, source_file) ==
  IF processes = <<>> THEN <<>>
  ELSE ScriptTools(Head(processes).process_body, source_file,
                   Head(processes).process_name)
       \o ContainerTools(Head(processes).process_body, source_file,
                         Head(processes).process_name)
       \o ProcessTools(Tail(processes), source_file)

_extract_processes(content, source_file) ==
  ProcessTools(ProcessesFrom(content, 1), source_file)

MaxBody == 5

BodyPieces == {"{", "}", "x", ScriptSection, ContainerDirective}

\* the nesting depth after each piece of a text
RECURSIVE Depths(_, _)
Depths(s, d) ==
  IF s = <<>> THEN <<>>
  ELSE <<d + (IF Head(s) = "{" THEN 1 ELSE IF Head(s) = "}" THEN -1 ELSE 0)>>
       \o Depths(Tail(s), d + (IF Head(s) = "{" THEN 1 ELSE IF Head(s) = "}" THEN -1 ELSE 0))

Balanced(s) ==
  /\ \A i \in 1..Len(s) : Depths(s, 0)[i] >= 0
  /\ s # <<>> => Depths(s, 0)[Len(s)] = 0

\* the bodies of a block: texts of 1..MaxBody pieces whose braces match
Bodies == {b \in UNION {[1..n -> BodyPieces] : n \in 1..MaxBody} : Balanced(b)}

InitProcess ==
  /\ pc = "content"
  /\ analyzer = [detect_versions |-> FALSE, tools_database |-> <<>>, cached_versions |-> <<>>]
  /\ installed = [py |-> <<>>, cli |-> <<>>, modules |-> <<>>, failures |-> <<>>]
  /\ \E n \in ProcessNames, b \in Bodies :
       input = [kind |-> "nextflow", name |-> n, body |-> b,
                content |-> <<"process", n, "{">> \o b \o <<"}">>]
  /\ result = AnalysisResult
  /\ raw = <<>>
  /\ parseLog = <<>>
  /\ writes = <<>>
  /\ report = ReproducibilityReport

\* _extract_processes on the text of main.nf; parseLog keeps what findall gave
ExtractProcesses ==
  /\ pc = "content"
  /\ parseLog' = ProcessesFrom(input.content, 1)
  /\ raw' = _extract_processes(input.content, "main.nf")
  /\ pc' = "extracted"
  /\ UNCHANGED <<analyzer, installed, input, result, writes, report>>

NextProcess == ExtractProcesses

SpecProcess == InitProcess /\ [][NextProcess]_vars

Directives(b) == {i \in 1..Len(b) : b[i] \in {ScriptSection, ContainerDirective}}

\* C20: for every named block, the body handed to the extraction of scripts
\* and container directives is the whole text between the opening brace of the
\* block and its matching closing brace, whatever the depth of the braces
\* nested in it (0, 1, 2 or more), and every script section and container
\* directive of the body yields its fact, one placed after a doubly nested
\* structure included.
C20_BodyUpToMatchingBrace ==
  pc = "extracted" =>
    /\ parseLog = <<[process_name |-> input.name, process_body |-> input.body]>>
    /\ Len(raw) = Cardinality(Directives(input.body))

----------------------------------------------------------------------------
(* Shell sections of the workflow dialects: one line of a Nextflow script      *)
(* section and one command of a Snakemake shell directive.  A line is the     *)
(* list of its words, separated by single blanks; a variable is the pieces    *)
(* "$", "{", name, "}" (Nextflow) or "{", name, "}" (Snakemake).              *)

\* re.sub(r"\$\{[^}]+\}", "VAR", line) on one word
RECURSIVE SubBraced(_)
SubBraced(word) ==
  IF word = <<>> THEN <<>>
  ELSE IF Len(word) >= 4 /\ word[1] = "$" /\ word[2] = "{" /\ word[3] # "}" /\ word[4] = "}"
  THEN <<"VAR">> \o SubBraced(SubSeq(word, 5, Len(word)))
  ELSE <<Head(word)>> \o SubBraced(Tail(word))

\* re.sub(r"\$\w+", "VAR", clean_line) on one word
RECURSIVE SubBare(_)
SubBare(word) ==
  IF word = <<>> THEN <<>>
  ELSE IF Len(word) >= 2 /\ word[1] = "$" /\ word[2] \notin {"$", "{", "}", "-", "/"}
  THEN <<"VAR">> \o SubBare(SubSeq(word, 3, Len(word)))
  ELSE <<Head(word)>> \o SubBare(Tail(word))

\* clean_line.split() of _parse_script_commands
CleanLine(parts) == [i \in 1..Len(parts) |-> SubBare(SubBraced(parts[i]))]

\* re.sub(r"\{[^}]+\}", "PLACEHOLDER", shell_content) on one word
RECURSIVE SubPlaceholder(_)
SubPlaceholder(word) ==
  IF word = <<>> THEN <<>>
  ELSE IF Len(word) >= 3 /\ word[1] = "{" /\ word[2] # "}" /\ word[3] = "}"
  THEN <<"PLACEHOLDER">> \o SubPlaceholder(SubSeq(word, 4, Len(word)))
  ELSE <<Head(word)>> \o SubPlaceholder(Tail(word))

\* pipe_cmd.split() of _parse_shell_commands
CleanContent(parts) == [i \in 1..Len(parts) |-> SubPlaceholder(parts[i])]

\* a word that -{1,2}[\w-]+ matches from its first piece to its last
IsFlagWord(word) ==
  /\ Len(word) >= 2
  /\ word[1] = "-"
  /\ \A i \in 1..Len(word) : word[i] \notin {"$", "{", "}", "/", "="}

\* "${" in value or value.startswith("$")
IsVariable(value) == Contains(value, <<"$", "{">>) \/ StartsWith(value, "$")

\* re.findall(flag_pattern, command) from word i on, and the loop over its
\* matches: a flag word and the next word, when that does not start with a dash
RECURSIVE FlagMatchesFrom(_, _, _)
FlagMatchesFrom(parts, i, params) ==
  IF i > Len(parts) THEN params
  ELSE IF IsFlagWord(parts[i]) /\ i + 1 <= Len(parts) /\ ~StartsWith(parts[i + 1], "-")
  THEN FlagMatchesFrom(parts, i + 2,
         Put(params, parts[i],
             StrV(IF IsVariable(parts[i + 1]) THEN <<"<variable>">> ELSE parts[i + 1])))
  ELSE FlagMatchesFrom(parts, i + 1, params)

\* re.findall(bool_flag_pattern, command) from word i on, and the loop over its
\* matches: a match takes the blank before the flag and the blank after it, so
\* the word that follows a match cannot start one
RECURSIVE BoolMatchesFrom(_, _, _)
BoolMatchesFrom(parts, i, params) ==
  IF i > Len(parts) THEN params
  ELSE IF IsFlagWord(parts[i])
  THEN BoolMatchesFrom(parts, i + 2,
         IF HasKey(params, parts[i]) THEN params ELSE Put(params, parts[i], BoolV))
  ELSE BoolMatchesFrom(parts, i + 1, params)

\* NextflowParser._extract_params_from_command on the line as written
_extract_params_from_command(parts) ==
  BoolMatchesFrom(parts, 2, FlagMatchesFrom(parts, 1, <<>>))

\* the body of the loop of _parse_script_commands for one line: the list of
\* the fact it appends
ParseScriptLine(parts, source_file, process_name) ==
  IF parts = <<>> \/ StartsWith(parts[1], "#") THEN <<>>
  ELSE IF Falsy(SHELL_TOOLS(ToolCmd(CleanLine(parts)[1]))) THEN <<>>
  ELSE <<[ToolInfo(SHELL_TOOLS(ToolCmd(CleanLine(parts)[1])), None,
                   _extract_params_from_command(parts),
                   NextflowToolCategory(SHELL_TOOLS(ToolCmd(CleanLine(parts)[1]))),
                   source_file, 0)
          EXCEPT !.description = "Used in process: " \o process_name]>>

\* the while loop of SnakemakeParser._extract_params from index i on
RECURSIVE ExtractParamsFrom(_, _, _)
ExtractParamsFrom(args, i, params) ==
  IF i > Len(args) THEN params
  ELSE IF StartsWith(args[i], "-")
  THEN IF i + 1 <= Len(args) /\ ~StartsWith(args[i + 1], "-")
       THEN ExtractParamsFrom(args, i + 2,
              Put(params, args[i],
                  StrV(IF "PLACEHOLDER" \in Range(args[i + 1])
                       THEN <<"<variable>">> ELSE args[i + 1])))
       ELSE ExtractParamsFrom(args, i + 1, Put(params, args[i], BoolV))
  ELSE ExtractParamsFrom(args, i + 1, params)

_extract_params(args) == ExtractParamsFrom(args, 1, <<>>)

\* SnakemakeParser._get_tool_category
SnakemakeToolCategory(tool_name) ==
  CASE tool_name \in {"bwa", "samtools"} -> "alignment"
    [] tool_name = "htseq" -> "quantification"
    [] tool_name = "fastp" -> "preprocessing"
    [] OTHER -> "unknown"

\* the body of the loop of _parse_shell_commands for one command: the list of
\* the fact it appends
ParseShellLine(parts, source_file, rule_name) ==
  IF parts = <<>> \/ StartsWith(parts[1], "#") THEN <<>>
  ELSE IF Falsy(SHELL_TOOLS(ToolCmd(CleanContent(parts)[1]))) THEN <<>>
  ELSE <<[ToolInfo(SHELL_TOOLS(ToolCmd(CleanContent(parts)[1])), None,
                   _extract_params(Tail(CleanContent(parts))),
                   SnakemakeToolCategory(SHELL_TOOLS(ToolCmd(CleanContent(parts)[1]))),
                   source_file, 0)
          EXCEPT !.description = "Used in rule: " \o rule_name]>>

\* the words of a shell line: flags, values, and a variable of each dialect
LineWords ==
  {<<"-", "i">>, <<"-", "w">>, <<"-", "-", "detect_adapter_for_pe">>,
   <<"a.fq.gz">>, <<"8">>, <<"$", "{", "reads", "}">>, <<"{", "input", "}">>}

LineCommands == {<<"fastp">>, <<"/", "usr", "/", "bin", "/", "bwa">>, <<"ls">>}

ShellLines ==
  {<<c>> \o args : c \in LineCommands, args \in UNION {[1..n -> LineWords] : n \in 0..MaxArgs}}

InitShellLine ==
  /\ pc = "line"
  /\ analyzer = [detect_versions |-> FALSE, tools_database |-> <<>>, cached_versions |-> <<>>]
  /\ installed = [py |-> <<>>, cli |-> <<>>, modules |-> <<>>, failures |-> <<>>]
  /\ \E parts \in ShellLines : input = [kind |-> "line", parts |-> parts]
  /\ result = AnalysisResult
  /\ raw = <<>>
  /\ parseLog = <<>>
  /\ writes = <<>>
  /\ report = ReproducibilityReport

\* the line sits in the script section of process ALIGN of main.nf
ParseScriptCommands ==
  /\ pc = "line"
  /\ raw' = ParseScriptLine(input.parts, "main.nf", "ALIGN")
  /\ parseLog' = <<[parser |-> "nextflow"]>>
  /\ pc' = "fact"
  /\ UNCHANGED <<analyzer, installed, input, result, writes, report>>

\* the line sits in the shell directive of rule align of the Snakefile
ParseShellCommands ==
  /\ pc = "line"
  /\ raw' = ParseShellLine(input.parts, "Snakefile", "align")
  /\ parseLog' = <<[parser |-> "snakemake"]>>
  /\ pc' = "fact"
  /\ UNCHANGED <<analyzer, installed, input, result, writes, report>>

NextShellLine == ParseScriptCommands \/ ParseShellCommands

SpecShellLine == InitShellLine /\ [][NextShellLine]_vars

\* the line the Script Scanner is given: the variables replaced as the
\* dialect that scanned the line replaces them
Replaced ==
  IF parseLog = <<[parser |-> "nextflow"]>> THEN CleanLine(input.parts)
  ELSE CleanContent(input.parts)

\* C21: for every line of a workflow shell section whose first word is a
\* recognized command, the workflow scanner (Nextflow or Snakemake) produces
\* one fact with the canonical name and the parameter map that the Script
\* Scanner's _parse_shell_command produces for the same line once the variables
\* are replaced by the placeholder: the same flag/value pairs, boolean flags
\* and "input"/"output" positional keys.
C21_SameFactAsScriptScanner ==
  (pc = "fact" /\ _parse_shell_command(<<>>, Replaced, "s", 0) # <<>>) =>
    /\ Len(raw) = 1
    /\ raw[1].name = _parse_shell_command(<<>>, Replaced, "s", 0)[1].name
    /\ raw[1].parameters = _parse_shell_command(<<>>, Replaced, "s", 0)[1].parameters

----------------------------------------------------------------------------
(* parsers/python_parser.py: the first argument of a call to a               *)
(* process-spawning primitive.  An ast node is a record with its class name  *)
(* in t; a string is the list of its words, str(number) is one word.         *)

Constant(words) == [t |-> "Constant", isstr |-> TRUE, value |-> words]
Number(word) == [t |-> "Constant", isstr |-> FALSE, value |-> <<word>>]
Name(id) == [t |-> "Name", id |-> id]
OtherNode(class) == [t |-> class]
List(elts) == [t |-> "List", elts |-> elts]
JoinedStr(values) == [t |-> "JoinedStr", values |-> values]

\* _get_literal_value(node) for the element of a list: the list of str(value),
\* empty when the value is None; the elements of the model are constants,
\* names, calls and attributes
_get_literal_value(node) ==
  CASE node.t = "Constant" -> <<node.value>>
    [] node.t = "Name" -> <<<<<<"$", node.id>>>>>>
    [] OTHER -> <<>>

\* the loop over first_arg.elts: the values that are not None
RECURSIVE ListParts(_)
ListParts(elts) ==
  IF elts = <<>> THEN <<>>
  ELSE Flatten(_get_literal_value(Head(elts))) \o ListParts(Tail(elts))

\* the loop over first_arg.values: the literal segments
RECURSIVE JoinedParts(_)
JoinedParts(values) ==
  IF values = <<>> THEN <<>>
  ELSE (IF Head(values).t = "Constant" /\ Head(values).isstr
        THEN Head(values).value ELSE <<>>)
       \o JoinedParts(Tail(values))

\* _extract_command_string(node): the list of the command it returns (a
\* command is the list of its words), empty when it returns None
_extract_command_string(args) ==
  IF args = <<>> THEN <<>>
  ELSE CASE args[1].t = "Constant" -> (IF args[1].isstr THEN <<args[1].value>> ELSE <<>>)
         [] args[1].t = "List" ->
              (IF ListParts(args[1].elts) # <<>> THEN <<ListParts(args[1].elts)>> ELSE <<>>)
         [] args[1].t = "JoinedStr" ->
              (IF JoinedParts(args[1].values) # <<>> THEN <<JoinedParts(args[1].values)>>
               ELSE <<>>)
         [] OTHER -> <<>>

\* the body of the loop of _extract_shell_commands for one call: the list of
\* the fact it appends (`if command:` drops None and the empty string)
ExtractShellCommand(db, args, source_file, lineno) ==
  IF _extract_command_string(args) = <<>> \/ _extract_command_string(args) = <<<<>>>>
  THEN <<>>
  ELSE _parse_shell_command(db, _extract_command_string(args)[1], source_file, lineno)

ElementNodes ==
  {Constant(<<<<"fastp">>>>), Constant(<<<<"-", "i">>>>), Constant(<<<<"a.fq.gz">>>>),
   Number(<<"8">>), Name("infile"), OtherNode("Call"), OtherNode("Attribute")}

SegmentNodes ==
  {Constant(<<<<"fastp">>, <<"-", "i">>>>), Constant(<<<<"-", "w">>, <<"8">>>>),
   OtherNode("FormattedValue")}

FirstArguments ==
  {<<>>}
  \cup {<<n>> : n \in {Constant(<<<<"fastp">>, <<"-", "i">>, <<"a.fq.gz">>>>),
                       Constant(<<<<"ls">>>>), Constant(<<>>), Number(<<"8">>),
                       Name("cmd"), OtherNode("Call"), OtherNode("BinOp")}}
  \cup {<<List(elts)>> : elts \in UNION {[1..n -> ElementNodes] : n \in 0..MaxArgs}}
  \cup {<<JoinedStr(values)>> : values \in UNION {[1..n -> SegmentNodes] : n \in 0..2}}

InitCall ==
  /\ pc = "call"
  /\ analyzer = [detect_versions |-> FALSE, tools_database |-> <<>>, cached_versions |-> <<>>]
  /\ installed = [py |-> <<>>, cli |-> <<>>, modules |-> <<>>, failures |-> <<>>]
  /\ \E args \in FirstArguments : input = [kind |-> "call", args |-> args]
  /\ result = AnalysisResult
  /\ raw = <<>>
  /\ parseLog = <<>>
  /\ writes = <<>>
  /\ report = ReproducibilityReport

\* _extract_shell_commands on one subprocess.run call at line 3 of pipeline.py
ExtractShellCommands ==
  /\ pc = "call"
  /\ raw' = ExtractShellCommand(analyzer.tools_database, input.args, "pipeline.py", 3)
  /\ pc' = "fact"
  /\ UNCHANGED <<analyzer, installed, input, result, parseLog, writes, report>>

NextCall == ExtractShellCommands

SpecCall == InitCall /\ [][NextCall]_vars

\* a first argument the call can be attributed by: a string literal, a
\* formatted string, or a list literal all of whose elements are literals
Attributable(args) ==
  /\ args # <<>>
  /\ \/ args[1].t = "Constant" /\ args[1].isstr
     \/ args[1].t = "JoinedStr"
     \/ /\ args[1].t = "List"
        /\ \A i \in 1..Len(args[1].elts) : args[1].elts[i].t = "Constant"

\* C22: a call to a process-spawning primitive yields a shell-command fact only
\* if its first argument is a string literal, a formatted string, or a list
\* literal all of whose elements are literals; with any other first argument,
\* or a list that holds a call, an attribute, a name or another expression, the
\* call yields no fact and no warning.
C22_NonLiteralArgumentSkipped ==
  pc = "fact" =>
    /\ raw # <<>> => Attributable(input.args)
    /\ ~Attributable(input.args) => (raw = <<>> /\ result.warnings = <<>>)

----------------------------------------------------------------------------
(* parsers/jupyter_parser.py: the notebook scanner on whole notebooks.  A     *)
(* cell carries its captured outputs; the text of an output is the list of   *)
(* its pieces (words, blanks, "/", "-", version numbers).                    *)

MaxCells == 2

\* PythonParser.IMPORT_TOOL_MAP.get, on the names the model uses
IMPORT_TOOL_MAP(module) ==
  CASE module = "scanpy" -> "scanpy"
    [] module = "pysam" -> "samtools"
    [] OTHER -> None

\* [\d.]+ on one piece
IsVersionPiece(piece) == piece \in {"1.9.3", "0.23.2", "0.7.17"}

\* the three patterns of _extract_version_from_output tried at piece i: the
\* list of the (tool, version) pair of the match, empty without a match
VersionPatternAt(k, text, i) ==
  CASE k = 1 /\ i + 4 <= Len(text) /\ text[i + 1] = " " /\ Lower(text[i + 2]) = "version"
         /\ text[i + 3] = " " /\ IsVersionPiece(text[i + 4])
         /\ text[i] \notin {" ", "/", "-"} -> <<<<text[i], text[i + 4]>>>>
    [] k = 2 /\ i + 2 <= Len(text) /\ text[i + 1] = "/" /\ IsVersionPiece(text[i + 2])
         /\ text[i] \notin {" ", "/", "-"} -> <<<<text[i], text[i + 2]>>>>
    [] k = 3 /\ i + 2 <= Len(text) /\ text[i + 1] = "-" /\ IsVersionPiece(text[i + 2])
         /\ text[i] \notin {" ", "/", "-"} -> <<<<text[i], text[i + 2]>>>>
    [] OTHER -> <<>>

\* versions[...] = version for one match
RecordVersion(versions, match) ==
  IF match = <<>> THEN versions
  ELSE IF ~Falsy(SHELL_TOOLS(<<Lower(match[1][1])>>))
  THEN Put(versions, SHELL_TOOLS(<<Lower(match[1][1])>>), match[1][2])
  ELSE IF ~Falsy(IMPORT_TOOL_MAP(Lower(match[1][1])))
  THEN Put(versions, IMPORT_TOOL_MAP(Lower(match[1][1])), match[1][2])
  ELSE versions

\* the loops of _extract_version_from_output from pattern k, piece i on
RECURSIVE VersionsFrom(_, _, _, _)
VersionsFrom(text, k, i, versions) ==
  IF k > 3 THEN versions
  ELSE IF i > Len(text) THEN VersionsFrom(text, k + 1, 1, versions)
  ELSE VersionsFrom(text, k, i + 1, RecordVersion(versions, VersionPatternAt(k, text, i)))

_extract_version_from_output(text) == VersionsFrom(text, 1, 1, <<>>)

Output(output_type, text) == [output_type |-> output_type, text |-> text]

CodeCell(cell_type, blank, shell, clean, code, outputs) ==
  [cell_type |-> cell_type, blank |-> blank, shell |-> shell, clean |-> clean,
   code |-> code, outputs |-> outputs]

NotebookCells ==
  {CodeCell("code", FALSE, <<>>, "ok", <<UseScanpy>>,
            <<Output("stream", <<"scanpy", " ", "version", " ", "1.9.3">>)>>),
   CodeCell("code", FALSE, <<UseFastp>>, "syntaxerror", <<UseScanpy>>,
            <<Output("stream", <<"fastp", "/", "0.23.2">>)>>),
   CodeCell("code", FALSE, <<>>, "ok", <<UseScanpy>>, <<>>),
   CodeCell("code", FALSE, <<>>, "ok", <<UseScanpy>>,
            <<Output("stream", <<"done", " ", "bwa", "-", "0.7.17">>)>>),
   CodeCell("code", TRUE, <<>>, "ok", <<>>, <<>>),
   CodeCell("markdown", FALSE, <<UseFastp>>, "ok", <<UseScanpy>>,
            <<Output("stream", <<"scanpy", " ", "version", " ", "1.9.3">>)>>)}

KernelLanguages == {"python", "Python", "R"}

Notebooks ==
  {[Notebook(Path("n", ".ipynb"), "ok", "ok", l, cells) EXCEPT !.language = l] :
     l \in KernelLanguages,
     cells \in UNION {[1..n -> NotebookCells] : n \in 0..MaxCells}}

InitNotebook ==
  /\ pc = "notebook"
  /\ analyzer = [detect_versions |-> FALSE, tools_database |-> <<>>, cached_versions |-> <<>>]
  /\ installed = [py |-> <<>>, cli |-> <<>>, modules |-> <<>>, failures |-> <<>>]
  /\ \E a \in Notebooks : input = [kind |-> "notebook", art |-> a]
  /\ result = AnalysisResult
  /\ raw = <<>>
  /\ parseLog = <<>>
  /\ writes = <<>>
  /\ report = ReproducibilityReport

\* JupyterParser.parse(file_path)
ParseNotebook ==
  /\ pc = "notebook"
  /\ raw' = JupyterParse(analyzer.tools_database, input.art).tools
  /\ pc' = "parsed"
  /\ UNCHANGED <<analyzer, installed, input, result, parseLog, writes, report>>

NextNotebook == ParseNotebook

SpecNotebook == InitNotebook /\ [][NextNotebook]_vars

\* the uses the code of a cell produces facts from
CellUses(cell) == cell.shell \o (IF cell.clean = "ok" THEN cell.code ELSE <<>>)

\* the versions the stream outputs of a cell hold, as the scanner recovers them
RECURSIVE Recovered(_)
Recovered(outputs) ==
  IF outputs = <<>> THEN <<>>
  ELSE (IF Head(outputs).output_type = "stream"
        THEN _extract_version_from_output(Head(outputs).text) ELSE <<>>)
       \o Recovered(Tail(outputs))

\* the cells of the notebook that are scanned, by ordinal index
ScannedCells ==
  {i \in 0..(Len(input.art.cells) - 1) :
     /\ Lower(input.art.language) = "python"
     /\ input.art.cells[i + 1].cell_type = "code"
     /\ ~input.art.cells[i + 1].blank}

\* C23: for every notebook code cell, scanning the captured output adds no
\* fact for a tool the code of the cell did not produce, and a version
\* recovered from the output for a tool detected in that cell is surfaced: the
\* fact of the cell for that tool, when it had no version, carries the
\* recovered version in the result of the scanner.
C23_OutputVersionSurfaced ==
  pc = "parsed" =>
    /\ \A f \in 1..Len(raw) :
         \E i \in ScannedCells :
            /\ raw[f].line_number = i
            /\ \E u \in 1..Len(CellUses(input.art.cells[i + 1])) :
                 CellUses(input.art.cells[i + 1])[u].name = raw[f].name
    /\ \A i \in ScannedCells :
         \A u \in 1..Len(CellUses(input.art.cells[i + 1])) :
            (/\ CellUses(input.art.cells[i + 1])[u].version = None
             /\ HasKey(Recovered(input.art.cells[i + 1].outputs),
                       CellUses(input.art.cells[i + 1])[u].name))
            => \A f \in 1..Len(raw) :
                 (/\ raw[f].line_number = i
                  /\ raw[f].name = CellUses(input.art.cells[i + 1])[u].name)
                 => raw[f].version =
                      Get(Recovered(input.art.cells[i + 1].outputs), raw[f].name, None)

----------------------------------------------------------------------------
(* parsers/snakemake_parser.py: wrapper identifiers.  A wrapper path is the   *)
(* list of its segments (wrapper_path.split("/")); a segment is the sequence *)
(* of its pieces, so that startswith("v") is computed.                       *)

MaxSegments == 3

\* "/".join(parts)
RECURSIVE JoinPath(_)
JoinPath(parts) ==
  IF parts = <<>> THEN ""
  ELSE IF Len(parts) = 1 THEN Join(parts[1])
  ELSE Join(parts[1]) \o "/" \o JoinPath(Tail(parts))

\* the segments whose lower-case form is a key of SHELL_TOOLS
ToolSegments(parts) ==
  {i \in 1..Len(parts) : ~Falsy(SHELL_TOOLS(<<Join(LowerWord(parts[i]))>>))}

\* version = parts[0] if parts[0].startswith("v")
WrapperVersion(parts) == IF StartsWith(parts[1], "v") THEN Join(parts[1]) ELSE None

\* _parse_wrapper_path: the list of the fact it returns, empty when it returns None
_parse_wrapper_path(parts, source_file, rule_name) ==
  IF ToolSegments(parts) = {} THEN <<>>
  ELSE <<[ToolInfo(SHELL_TOOLS(<<Join(LowerWord(
                     parts[CHOOSE i \in ToolSegments(parts) :
                             \A j \in ToolSegments(parts) : i <= j]))>>),
                   WrapperVersion(parts), <<>>,
                   SnakemakeToolCategory(SHELL_TOOLS(<<Join(LowerWord(
                     parts[CHOOSE i \in ToolSegments(parts) :
                             \A j \in ToolSegments(parts) : i <= j]))>>)),
                   source_file, 0)
          EXCEPT !.description =
                   "Wrapper: " \o JoinPath(parts) \o " (rule: " \o rule_name \o ")"]>>

WrapperSegments ==
  {<<"v", "1", ".", "0">>, <<"master">>, <<"https:">>, <<"bio">>, <<"bwa">>,
   <<"v", "cftools">>, <<"fastp">>}

WrapperPaths == UNION {[1..n -> WrapperSegments] : n \in 1..MaxSegments}

InitWrapper ==
  /\ pc = "wrapper"
  /\ analyzer = [detect_versions |-> FALSE, tools_database |-> <<>>, cached_versions |-> <<>>]
  /\ installed = [py |-> <<>>, cli |-> <<>>, modules |-> <<>>, failures |-> <<>>]
  /\ \E parts \in WrapperPaths : input = [kind |-> "wrapper", parts |-> parts]
  /\ result = AnalysisResult
  /\ raw = <<>>
  /\ parseLog = <<>>
  /\ writes = <<>>
  /\ report = ReproducibilityReport

\* the wrapper directive of rule align of the Snakefile
ParseWrapperDirective ==
  /\ pc = "wrapper"
  /\ raw' = _parse_wrapper_path(input.parts, "Snakefile", "align")
  /\ pc' = "fact"
  /\ UNCHANGED <<analyzer, installed, input, result, parseLog, writes, report>>

NextWrapper == ParseWrapperDirective

SpecWrapper == InitWrapper /\ [][NextWrapper]_vars

\* a version tag: the letter v followed by numeric groups
IsVersionTag(segment) ==
  /\ Len(segment) >= 2
  /\ segment[1] = "v"
  /\ IsDigits(segment[2])
  /\ \A i \in 2..Len(segment) : VersionChar(segment[i])

\* C25: for every wrapper identifier that holds a recognized tool token as a
\* path segment, _parse_wrapper_path returns one fact for the first such
\* segment; its version is the leading segment when that segment is a version
\* tag (v followed by numeric groups) and absent otherwise, in particular when
\* the leading segment is itself a tool name or a URL scheme.
C25_WrapperVersionFromTag ==
  (pc = "fact" /\ ToolSegments(input.parts) # {}) =>
    /\ Len(raw) = 1
    /\ \A i \in ToolSegments(input.parts) :
         (\A j \in ToolSegments(input.parts) : i <= j)
           => raw[1].name = SHELL_TOOLS(<<Join(LowerWord(input.parts[i]))>>)
    /\ raw[1].version =
         IF IsVersionTag(input.parts[1]) THEN Join(input.parts[1]) ELSE None

----------------------------------------------------------------------------
(* The pre-scan at the end of analyze, as a step of its own: the result as    *)
(* enrichment left it, then _check_reproducibility_issues, then the scorer.  *)

ScanWarnings == {<<>>, <<[kind |-> "missing_path", tool |-> None]>>}

InitPreScan ==
  /\ pc = "enriched"
  /\ analyzer = [detect_versions |-> FALSE, tools_database |-> <<>>, cached_versions |-> <<>>]
  /\ installed = [py |-> <<>>, cli |-> <<>>, modules |-> <<>>, failures |-> <<>>]
  /\ result \in {[a EXCEPT !.warnings = w] : a \in Analyses, w \in ScanWarnings}
  /\ input = [kind |-> "result", before |-> result]
  /\ raw = <<>>
  /\ parseLog = <<>>
  /\ writes = <<>>
  /\ report = ReproducibilityReport

\* self._check_reproducibility_issues(result), the last statement of analyze
CheckReproducibilityIssues ==
  /\ pc = "enriched"
  /\ result' = [result EXCEPT !.warnings = @ \o _check_reproducibility_issues(result.tools)]
  /\ pc' = "analyzed"
  /\ UNCHANGED <<analyzer, installed, input, raw, parseLog, writes, report>>

NextPreScan == CheckReproducibilityIssues \/ ReproducibilityCheck

SpecPreScan == InitPreScan /\ [][NextPreScan]_vars

\* the warnings the pre-scan appended
Appended ==
  SubSeq(result.warnings, Len(input.before.warnings) + 1, Len(result.warnings))

AppendedFor(kind, name) ==
  {n \in 1..Len(Appended) : Appended[n].kind = kind /\ Appended[n].tool = name}

FactsNamed(name) == {i \in 1..Len(result.tools) : result.tools[i].name = name}

\* the string parameter values of the facts of one name that hold a pattern
PathValuesOf(name, patterns) ==
  {ij \in FactsNamed(name) \X (1..3) :
     /\ ij[2] <= Len(result.tools[ij[1]].parameters)
     /\ result.tools[ij[1]].parameters[ij[2]].v.kind = "str"
     /\ \E p \in patterns : Contains(result.tools[ij[1]].parameters[ij[2]].v.val, p)}

AbsolutePathPatterns ==
  {<<"/", "home", "/">>, <<"/", "Users", "/">>, <<"C:", "\\">>, <<"/", "tmp", "/">>}

\* C26: the pre-scan at the end of analyze only appends warnings: the fact
\* list, every fact, the source-file list and the environment are as before,
\* and the result holds one "no version" warning for each fact whose version
\* is absent and none for a fact that has one, one hard-coded-path warning for
\* each string parameter value that holds an absolute-path pattern, and one
\* seed warning for each single-cell or differential-expression fact without a
\* seed parameter.
C26_PreScanOnlyAppendsWarnings ==
  pc \in {"analyzed", "checked"} =>
    /\ result.tools = input.before.tools
    /\ result.source_files = input.before.source_files
    /\ result.environment = input.before.environment
    /\ result.workflow_type = input.before.workflow_type
    /\ SubSeq(result.warnings, 1, Len(input.before.warnings)) = input.before.warnings
    /\ \A n \in 1..Len(Appended) :
         Appended[n].kind \in {"no_version", "hardcoded_path", "seed"}
    /\ \A t \in 1..Len(result.tools) :
         /\ Cardinality(AppendedFor("no_version", result.tools[t].name))
              = Cardinality({i \in FactsNamed(result.tools[t].name) :
                               result.tools[i].version \in {None, ""}})
         /\ Cardinality(AppendedFor("hardcoded_path", result.tools[t].name))
              = Cardinality(PathValuesOf(result.tools[t].name, AbsolutePathPatterns))
         /\ Cardinality(AppendedFor("seed", result.tools[t].name))
              = Cardinality({i \in FactsNamed(result.tools[t].name) :
                               /\ result.tools[i].category
                                    \in {"single-cell", "differential-expression"}
                               /\ ~HasSeedKey(result.tools[i])})
    /\ result.tools = <<>> => Appended = <<>>

\* C26 witness: a fact with a value that holds two patterns got one path
\* warning, next to a seeded single-cell fact that got no warning at all
C26_Witness ==
  /\ pc = "analyzed"
  /\ Len(result.tools) = 2
  /\ result.tools[1].parameters =
       <<P("-i", StrV(<<"/", "home", "/", "u", "/", "tmp", "/", "a.fq">>))>>
  /\ result.tools[2].name = "scanpy" /\ result.tools[2].version = "1.9.3"
  /\ Len(Appended) = 1
  /\ Appended[1].kind = "hardcoded_path"

PathIssuesFor(name) ==
  {n \in 1..Len(report.issues) :
     report.issues[n].category = "path" /\ report.issues[n].tool = name}

\* C28: the pre-scan and the scorer classify hard-coded paths identically: for
\* every fact and every string parameter value the pre-scan appends a
\* hard-coded-path warning if and only if reproducibility_check appends a path
\* issue for it, so the facts of one name get as many warnings as issues, and
\* "No hardcoded paths" is false exactly when there is such a warning.
C28_SamePathClassification ==
  pc = "checked" =>
    /\ \A t \in 1..Len(result.tools) :
         Cardinality(AppendedFor("hardcoded_path", result.tools[t].name))
           = Cardinality(PathIssuesFor(result.tools[t].name))
    /\ Get(report.checklist, "No hardcoded paths", TRUE)
         = (\A n \in 1..Len(Appended) : Appended[n].kind # "hardcoded_path")

----------------------------------------------------------------------------
(* The detector specification: one VersionDetector, its two detection        *)
(* methods called in any order, on a machine whose packages and tools are   *)
(* installed, upgraded and removed between the calls.                        *)

MaxDetections == 2

DetectorNames == {"scanpy", "biopython", "fastp"}

PackageMetadata ==
  {<<>>, <<P("scanpy", "1.9.3")>>, <<P("scanpy", "1.10.0"), P("Bio", "1.81")>>}

Modules == {<<>>, <<P("Bio", "1.83")>>}

\* what running the tool gives: its version, no version, or an exception
ToolRuns ==
  {[cli |-> <<P("fastp", "0.23.2")>>, failures |-> <<>>],
   [cli |-> <<P("fastp", "0.23.4")>>, failures |-> <<>>],
   [cli |-> <<>>, failures |-> <<>>],
   [cli |-> <<>>, failures |-> <<P("fastp", "TimeoutExpired")>>],
   [cli |-> <<>>, failures |-> <<P("fastp", "FileNotFoundError"), P("scanpy", "FileNotFoundError")>>],
   [cli |-> <<P("fastp", "0.23.2")>>, failures |-> <<P("fastp", "PermissionError")>>]}

DetectorMachines ==
  {[py |-> py, cli |-> run.cli, modules |-> m, failures |-> run.failures] :
     py \in PackageMetadata, m \in Modules, run \in ToolRuns}

InitDetector ==
  /\ pc = "detector"
  /\ analyzer = [detect_versions |-> TRUE, tools_database |-> <<>>, cached_versions |-> <<>>]
  /\ installed \in DetectorMachines
  /\ input = [kind |-> "none"]
  /\ result = AnalysisResult
  /\ raw = <<>>
  /\ parseLog = <<>>
  /\ writes = <<>>
  /\ report = ReproducibilityReport

\* one call, as the log keeps it
Detection(method, name, before, out) ==
  [method |-> method, name |-> name, before |-> before, version |-> out.version,
   after |-> out.cache, queries |-> out.queries, raised |-> out.raised]

DetectPythonPackageVersion ==
  /\ pc = "detector"
  /\ Len(parseLog) < MaxDetections
  /\ \E name \in DetectorNames :
       \E out \in {detect_python_package_version(analyzer.cached_versions, installed, name)} :
         /\ analyzer' = [analyzer EXCEPT !.cached_versions = out.cache]
         /\ parseLog' = Append(parseLog, Detection("python", name, analyzer.cached_versions, out))
  /\ UNCHANGED <<pc, installed, input, result, raw, writes, report>>

DetectCliToolVersion ==
  /\ pc = "detector"
  /\ Len(parseLog) < MaxDetections
  /\ \E name \in DetectorNames :
       \E out \in {detect_cli_tool_version(analyzer.cached_versions, installed, name)} :
         /\ analyzer' = [analyzer EXCEPT !.cached_versions = out.cache]
         /\ parseLog' = Append(parseLog, Detection("cli", name, analyzer.cached_versions, out))
  /\ UNCHANGED <<pc, installed, input, result, raw, writes, report>>

\* the machine between two calls: a package or tool installed, upgraded, removed
MachineChanges ==
  /\ pc = "detector"
  /\ parseLog # <<>>
  /\ installed' \in DetectorMachines \ {installed}
  /\ UNCHANGED <<pc, analyzer, input, result, raw, parseLog, writes, report>>

NextDetector == DetectPythonPackageVersion \/ DetectCliToolVersion \/ MachineChanges

SpecDetector == InitDetector /\ [][NextDetector]_vars

\* C29: on one VersionDetector, once a call returned a version for a name, every
\* later call of either method for that name returns the same version and asks
\* neither the package metadata nor a process again; a call that finds no
\* version, times out, or hits a missing or non-executable binary returns none,
\* raises nothing and leaves the cache as it was.
C29_CachedVersionIsFinal ==
  pc = "detector" =>
    /\ \A i, j \in 1..Len(parseLog) :
         (i < j /\ parseLog[i].name = parseLog[j].name /\ parseLog[i].version # None) =>
           /\ parseLog[j].version = parseLog[i].version
           /\ parseLog[j].queries = <<>>
    /\ \A i \in 1..Len(parseLog) :
         /\ parseLog[i].raised = None
         /\ parseLog[i].version = None => parseLog[i].after = parseLog[i].before

\* C29 witness: fastp found by the tool's own output at 0.23.2, the tool then
\* upgraded, and the package method answers 0.23.2 for fastp without a query
C29_Witness ==
  /\ pc = "detector"
  /\ Len(parseLog) = 2
  /\ parseLog[1].method = "cli" /\ parseLog[1].name = "fastp"
  /\ parseLog[1].version = "0.23.2"
  /\ Get(installed.cli, "fastp", None) = "0.23.4" /\ installed.failures = <<>>
  /\ parseLog[2].method = "python" /\ parseLog[2].version = "0.23.2"
  /\ parseLog[2].queries = <<>>

----------------------------------------------------------------------------
(* The configuration artifact: a directory of .nf artifacts with a          *)
(* nextflow.config next to them, scanned by analyze.                         *)

MaxNf == 2

\* NextflowParser._parse_config: one _parse_container_image per container
\* directive of the configuration, under the name of the configuration file
_parse_config(images, config_path) ==
  Flatten([d \in 1..Len(images) |-> _parse_container_image(images[d], config_path, "config")])

ConfigImages ==
  {<<"quay.io", "/", "biocontainers", "/", "fastp", ":", "0", ".", "23", ".", "2">>,
   <<"biocontainers", "/", "bwa", ":", "0", ".", "9">>,
   <<"ubuntu", ":", "latest">>}

\* the container directives of a nextflow.config; <<>> also stands for a
\* directory without one
ConfigDirectives == UNION {[1..n -> ConfigImages] : n \in 0..2}

NfPaths == {Path("main", ".nf"), Path("qc", ".nf"), Path("align", ".nf")}

\* the .nf artifacts of one directory, all next to the same configuration
NfArtifacts(images) ==
  {[Art(path, "ok", "ok", uses) EXCEPT !.config = _parse_config(images, "nextflow.config")] :
     path \in NfPaths, uses \in {<<>>, <<UseBwa>>}}

DirectoriesWith(images) ==
  {[kind |-> "dir", files |-> files, dir |-> NoManifests, images |-> images] :
     files \in UNION {{f \in [1..n -> NfArtifacts(images)] : GlobOrder(f)} : n \in 0..MaxNf}}

WorkflowDirectories == UNION {DirectoriesWith(images) : images \in ConfigDirectives}

InitConfig ==
  /\ pc = "init"
  /\ analyzer \in {a \in Analyzers : ~a.detect_versions}
  /\ installed = [py |-> <<>>, cli |-> <<>>, modules |-> <<>>, failures |-> <<>>]
  /\ input = [kind |-> "none"]
  /\ result = AnalysisResult
  /\ raw = <<>>
  /\ parseLog = <<>>
  /\ writes = <<>>
  /\ report = ReproducibilityReport

\* analyze(directory) on a directory that holds a nextflow.config
AnalyzeWorkflowDirectory ==
  /\ pc = "init"
  /\ \E path \in WorkflowDirectories :
       \E out \in {analyze(analyzer, installed, path)} :
          /\ input' = path
          /\ result' = out.result
          /\ raw' = out.raw
          /\ parseLog' = out.calls
          /\ analyzer' = [analyzer EXCEPT !.cached_versions = out.cache]
  /\ pc' = "analyzed"
  /\ UNCHANGED <<installed, writes, report>>

NextConfig == AnalyzeWorkflowDirectory \/ ReproducibilityCheck

SpecConfig == InitConfig /\ [][NextConfig]_vars

\* the facts of the merged result that come from the directive of one image
FactsOfDirective(image) ==
  {i \in 1..Len(result.tools) :
     /\ result.tools[i].source_file = "nextflow.config"
     /\ result.tools[i].description = "Container: " \o Join(image) \o " (process: config)"}

\* C30: in a directory scan each container directive of a colocated
\* nextflow.config that names a known tool contributes exactly one fact to the
\* merged result, however many .nf artifacts (one or more) sit next to the
\* configuration: the facts of an image are as many as the directives that
\* name it.
C30_OneFactPerConfigDirective ==
  (pc = "analyzed" /\ input.kind = "dir" /\ input.files # <<>>) =>
    \A d \in 1..Len(input.images) :
      ContainerKeys(input.images[d]) # {} =>
        Cardinality(FactsOfDirective(input.images[d]))
          = Cardinality({e \in 1..Len(input.images) : input.images[e] = input.images[d]})

====
